---- MODULE Spec2Model ----
(***************************************************************************)
(* Model of the bongo-farmers storefront and admin back-office: the order  *)
(* modal (pricing, submission), the admin Orders and Products pages, the   *)
(* AddProduct form (slug check, suggestion, submission) and the pure       *)
(* derivation functions over stored order records.                         *)
(*                                                                         *)
(* JavaScript numbers are modelled in fixed point: the integer n stands    *)
(* for the number n / 1000, which is exact for every input used here       *)
(* (whole and half prices, gram and kilogram weights).  Loosely typed      *)
(* record fields are tagged values: undefined, null, NaN, a number or a    *)
(* string (a sequence of one-character strings).                           *)
(***************************************************************************)
EXTENDS Integers, Sequences, FiniteSets, TLC

VARIABLES
    dbProducts,     \* Firestore collection "products": id -> document
    dbOrders,       \* Firestore collection "orders": id -> document
    nextOrderId,    \* ids handed out by addDoc(orders) so far, plus one
    nextProductId,  \* ids handed out by addDoc(products) so far, plus one
    modal,          \* ProductPage.showOrder and the OrderModal's state
    closeTimers,    \* pending 3.2 s auto-close timers of order modals
    submits,        \* addDoc(orders) requests of handleSubmit in flight
    notified,       \* the webhook posts made, each with its order id and result
    ordersPage,     \* state of the admin Orders component
    orderTasks,     \* asynchronous handlers of the Orders component in flight
    productsPage,   \* state of the AdminProducts component
    productTasks,   \* asynchronous handlers of AdminProducts in flight
    forms,          \* AddProduct form sessions (one per admin browser tab)
    weightIn,       \* a stored order record handed to the derivation functions
    weightOut,      \* what the derivation function returned for weightIn
    shop            \* the public pages AllProducts and ProductPage and their loads

vars == <<dbProducts, dbOrders, nextOrderId, nextProductId, modal, closeTimers,
          submits, notified, ordersPage, orderTasks, productsPage, productTasks, forms,
          weightIn, weightOut, shop>>

-----------------------------------------------------------------------------
(* Bounds of the model *)

MaxOrders == 2
MaxQty == 3
MaxOpens == 2
MaxInflight == 2
MaxProducts == 4
MaxEdits == 2
MaxSuggestCalls == 15
MaxSuggests == 1

\* the asynchronous calls one AddProduct form awaits
FormOps(f) ==
    Cardinality(f.checks) + Len(f.suggests)
    + (IF f.submit.phase = "none" THEN 0 ELSE 1)

RECURSIVE SumOps(_)
SumOps(fs) == IF fs = <<>> THEN 0 ELSE FormOps(Head(fs)) + SumOps(Tail(fs))

\* the asynchronous calls awaiting their result, over all components
InFlight ==
    Cardinality(submits) + Cardinality(orderTasks) + Cardinality(productTasks)
    + SumOps(forms)
CanStart == InFlight < MaxInflight

-----------------------------------------------------------------------------
(* JavaScript values *)

Undef == [t |-> "undef"]
Null == [t |-> "null"]
NaN == [t |-> "nan"]
N(v) == [t |-> "num", v |-> v]
Str(s) == [t |-> "str", s |-> s]
Num(n) == N(n * 1000)

IsNum(x) == x.t = "num"
IsNaN(x) == x.t = "nan"

\* a * b on two numbers, NaN when either operand is NaN
JMul(a, b) ==
    IF IsNaN(a) \/ IsNaN(b) THEN NaN
    ELSE N((a.v \div 1000) * b.v + ((a.v % 1000) * b.v) \div 1000)

\* a + b on two numbers
JAdd(a, b) ==
    IF IsNaN(a) \/ IsNaN(b) THEN NaN ELSE N(a.v + b.v)

-----------------------------------------------------------------------------
(* OrderModal: price calculations *)

unitKgOfAlwaysWhole(unitSize) == Num(1)
unitKgOf(unitSize) == IF unitSize = "500g" THEN N(500) ELSE Num(1)
unitPriceOf(pricePerKg, unitSize) == JMul(pricePerKg, unitKgOf(unitSize))
itemsTotalOf(unitPrice, quantity) == JMul(unitPrice, Num(quantity))
deliveryFeeOf(deliveryType) == IF deliveryType = "inside" THEN Num(80) ELSE Num(120)
grandTotalOf(itemsTotal, deliveryFee) == JAdd(itemsTotal, deliveryFee)
totalWeightKgOf(unitSize, quantity) == JMul(unitKgOf(unitSize), Num(quantity))

-----------------------------------------------------------------------------
(* Strings: sequences of one-character strings *)

Whitespace == {" ", "\t"}
Digits == <<"0", "1", "2", "3", "4", "5", "6", "7", "8", "9">>
DigitChars == {Digits[i] : i \in 1..10}

RECURSIVE TrimStart(_)
TrimStart(s) ==
    IF s # <<>> /\ Head(s) \in Whitespace THEN TrimStart(Tail(s)) ELSE s

RECURSIVE TrimEnd(_)
TrimEnd(s) ==
    IF s # <<>> /\ s[Len(s)] \in Whitespace
    THEN TrimEnd(SubSeq(s, 1, Len(s) - 1)) ELSE s

\* String.prototype.trim
Trim(s) == TrimEnd(TrimStart(s))

\* s.replace(/\D/g, "")
OnlyDigits(s) == SelectSeq(s, LAMBDA c : c \in DigitChars)

-----------------------------------------------------------------------------
(* JavaScript coercions *)

Upper == <<"A", "B", "C", "D", "E", "F", "G", "H", "I", "J", "K", "L", "M",
           "N", "O", "P", "Q", "R", "S", "T", "U", "V", "W", "X", "Y", "Z">>
Lower == <<"a", "b", "c", "d", "e", "f", "g", "h", "i", "j", "k", "l", "m",
           "n", "o", "p", "q", "r", "s", "t", "u", "v", "w", "x", "y", "z">>

\* String.prototype.toLowerCase
LowerChar(c) ==
    IF \E i \in 1..26 : Upper[i] = c
    THEN Lower[CHOOSE i \in 1..26 : Upper[i] = c]
    ELSE c
ToLowerCase(s) == [i \in 1..Len(s) |-> LowerChar(s[i])]

DigitVal(c) == (CHOOSE i \in 1..10 : Digits[i] = c) - 1

\* the longest prefix of s made of characters of set cs
RECURSIVE TakeWhile(_, _)
TakeWhile(s, cs) ==
    IF s # <<>> /\ Head(s) \in cs
    THEN <<Head(s)>> \o TakeWhile(Tail(s), cs)
    ELSE <<>>

Drop1(s, n) == SubSeq(s, n + 1, Len(s))

\* the value of a run of digits, as a whole number
RECURSIVE IntOf(_)
IntOf(ds) ==
    IF ds = <<>> THEN 0 ELSE IntOf(SubSeq(ds, 1, Len(ds) - 1)) * 10 + DigitVal(ds[Len(ds)])

\* the value of the digits after a decimal point, in thousandths
FracOf(ds) ==
    (IF Len(ds) >= 1 THEN DigitVal(ds[1]) * 100 ELSE 0)
    + (IF Len(ds) >= 2 THEN DigitVal(ds[2]) * 10 ELSE 0)
    + (IF Len(ds) >= 3 THEN DigitVal(ds[3]) ELSE 0)

\* The decimal literal at the start of s (sign, digits, point, digits):
\* its value and the number of characters it takes; NaN when there is none.
DecimalPrefix(s) ==
    LET neg == s # <<>> /\ Head(s) = "-"
        pos == s # <<>> /\ Head(s) = "+"
        body == IF neg \/ pos THEN Tail(s) ELSE s
        ip == TakeWhile(body, DigitChars)
        rest == Drop1(body, Len(ip))
        dot == rest # <<>> /\ Head(rest) = "."
        fp == IF dot THEN TakeWhile(Tail(rest), DigitChars) ELSE <<>>
        mag == IntOf(ip) * 1000 + FracOf(fp)
    IN IF ip = <<>> /\ fp = <<>>
       THEN [val |-> NaN, len |-> 0]
       ELSE [val |-> N(IF neg THEN 0 - mag ELSE mag),
             len |-> (IF neg \/ pos THEN 1 ELSE 0) + Len(ip)
                     + (IF dot THEN 1 + Len(fp) ELSE 0)]

\* parseFloat(s)
ParseFloat(s) == DecimalPrefix(TrimStart(s)).val

\* the Bengali digits 0..9, one code point each
BnDigits == <<"U+09E6", "U+09E7", "U+09E8", "U+09E9", "U+09EA",
              "U+09EB", "U+09EC", "U+09ED", "U+09EE", "U+09EF">>

\* the loop of parsePriceToNumber: every Bengali digit becomes its ASCII digit
BnToAscii(s) ==
    [i \in 1..Len(s) |->
        IF \E d \in 1..10 : BnDigits[d] = s[i]
        THEN Digits[CHOOSE d \in 1..10 : BnDigits[d] = s[i]]
        ELSE s[i]]

\* s.replace(/[^\d.-]/g, "")
KeepPriceChars(s) == SelectSeq(s, LAMBDA c : c \in DigitChars \cup {".", "-"})

\* parsePriceToNumber(val): null and undefined give 0, a number (NaN too) is
\* returned as it is, a string is cleaned and parsed, 0 when nothing parses
parsePriceToNumber(val) ==
    IF val.t \in {"undef", "null"} THEN N(0)
    ELSE IF val.t \in {"num", "nan"} THEN val
    ELSE LET f == ParseFloat(KeepPriceChars(BnToAscii(val.s)))
         IN IF IsNaN(f) THEN N(0) ELSE f

\* Number(s) for a string: the whole trimmed string must be one literal
StringToNumber(s) ==
    LET t == Trim(s)
        d == DecimalPrefix(t)
    IN IF t = <<>> THEN N(0)
       ELSE IF d.len = Len(t) THEN d.val
       ELSE NaN

\* Number(x)
ToNumber(x) ==
    CASE x.t = "num" -> x
      [] x.t = "null" -> N(0)
      [] x.t = "str" -> StringToNumber(x.s)
      [] OTHER -> NaN

\* whether x is truthy
Truthy(x) ==
    CASE x.t = "num" -> x.v # 0
      [] x.t = "str" -> x.s # <<>>
      [] OTHER -> FALSE

\* x || y
OrElse(x, y) == IF Truthy(x) THEN x ELSE y

\* x != null
NotNullish(x) == x.t \notin {"undef", "null"}

\* a / 1000
JDivThousand(a) == IF IsNaN(a) THEN NaN ELSE N(a.v \div 1000)

-----------------------------------------------------------------------------
(* Orders.tsx: derivation over stored order records *)

NumberChars == DigitChars \cup {".", ","}

\* s.replace(",", "."): the first comma only
RECURSIVE ReplaceFirstComma(_)
ReplaceFirstComma(s) ==
    IF s = <<>> THEN <<>>
    ELSE IF Head(s) = "," THEN <<".">> \o Tail(s)
    ELSE <<Head(s)>> \o ReplaceFirstComma(Tail(s))

\* label.toLowerCase().match(/([\d.,]+)\s*(kg|g)?/): whether it matches,
\* the number run m[1] and the unit m[2] ("" when the group did not match)
RECURSIVE MatchWeightLabel(_)
MatchWeightLabel(s) ==
    IF s = <<>> THEN [ok |-> FALSE, num |-> <<>>, unit |-> ""]
    ELSE IF Head(s) \notin NumberChars THEN MatchWeightLabel(Tail(s))
    ELSE LET run == TakeWhile(s, NumberChars)
             after == TrimStart(Drop1(s, Len(run)))
         IN [ok |-> TRUE, num |-> run,
             unit |-> IF Len(after) >= 2 /\ after[1] = "k" /\ after[2] = "g" THEN "kg"
                      ELSE IF Len(after) >= 1 /\ after[1] = "g" THEN "g"
                      ELSE ""]

\* rule 3 with the unit "g" read as kilograms
WeightFromLabelGramsAsKg(order, qty) ==
    IF ~(Truthy(order.weightLabel) /\ order.weightLabel.t = "str")
    THEN [hit |-> FALSE, val |-> NaN]
    ELSE LET m == MatchWeightLabel(ToLowerCase(order.weightLabel.s))
             num == ParseFloat(ReplaceFirstComma(m.num))
         IN IF ~m.ok \/ IsNaN(num) THEN [hit |-> FALSE, val |-> NaN]
            ELSE [hit |-> TRUE,
                  val |-> IF m.unit \in {"kg", "g"} THEN JMul(num, qty)
                          ELSE IF num.v < 10000 THEN JMul(num, qty)
                          ELSE JMul(JDivThousand(num), qty)]

\* rule 3 of computeOrderWeightKg: [hit |-> whether it returned, val |-> what]
WeightFromLabel(order, qty) ==
    IF ~(Truthy(order.weightLabel) /\ order.weightLabel.t = "str")
    THEN [hit |-> FALSE, val |-> NaN]
    ELSE LET m == MatchWeightLabel(ToLowerCase(order.weightLabel.s))
             num == ParseFloat(ReplaceFirstComma(m.num))
         IN IF ~m.ok \/ IsNaN(num) THEN [hit |-> FALSE, val |-> NaN]
            ELSE [hit |-> TRUE,
                  val |-> IF m.unit = "kg" THEN JMul(num, qty)
                          ELSE IF m.unit = "g" THEN JMul(JDivThousand(num), qty)
                          ELSE IF num.v < 10000 THEN JMul(num, qty)
                          ELSE JMul(JDivThousand(num), qty)]

WeightFromUnitWeightTenIsKg(order, qty) ==
    IF ~(NotNullish(order.unitWeight) /\ ~IsNaN(ToNumber(order.unitWeight)))
    THEN [hit |-> FALSE, val |-> NaN]
    ELSE LET uw == ToNumber(order.unitWeight)
         IN IF uw.v > 0 /\ uw.v <= 10000 THEN [hit |-> TRUE, val |-> JMul(uw, qty)]
            ELSE IF uw.v > 0 THEN [hit |-> TRUE, val |-> JMul(JDivThousand(uw), qty)]
            ELSE [hit |-> FALSE, val |-> NaN]

WeightFromUnitWeightAnySign(order, qty) ==
    IF ~(NotNullish(order.unitWeight) /\ ~IsNaN(ToNumber(order.unitWeight)))
    THEN [hit |-> FALSE, val |-> NaN]
    ELSE LET uw == ToNumber(order.unitWeight)
         IN IF uw.v < 10000 THEN [hit |-> TRUE, val |-> JMul(uw, qty)]
            ELSE [hit |-> TRUE, val |-> JMul(JDivThousand(uw), qty)]

\* rule 2 of computeOrderWeightKg
WeightFromUnitWeight(order, qty) ==
    IF ~(NotNullish(order.unitWeight) /\ ~IsNaN(ToNumber(order.unitWeight)))
    THEN [hit |-> FALSE, val |-> NaN]
    ELSE LET uw == ToNumber(order.unitWeight)
         IN IF uw.v > 0 /\ uw.v < 10000 THEN [hit |-> TRUE, val |-> JMul(uw, qty)]
            ELSE IF uw.v > 0 THEN [hit |-> TRUE, val |-> JMul(JDivThousand(uw), qty)]
            ELSE [hit |-> FALSE, val |-> NaN]

\* rule 1 of computeOrderWeightKg
WeightFromUnitWeightKg(order, qty) ==
    IF NotNullish(order.unitWeightKg) /\ ~IsNaN(ToNumber(order.unitWeightKg))
    THEN [hit |-> TRUE, val |-> JMul(ToNumber(order.unitWeightKg), qty)]
    ELSE [hit |-> FALSE, val |-> NaN]

computeOrderWeightKg(order) ==
    LET qty == ToNumber(OrElse(order.quantity, N(0)))
        r1 == WeightFromUnitWeightKg(order, qty)
        r2 == WeightFromUnitWeight(order, qty)
        r3 == WeightFromLabel(order, qty)
    IN IF IsNum(qty) /\ qty.v <= 0 THEN N(0)
       ELSE IF r1.hit THEN r1.val
       ELSE IF r2.hit THEN r2.val
       ELSE IF r3.hit THEN r3.val
       ELSE JMul(Num(1), qty)

computeOrderTotalItemsFirst(order) ==
    LET q == ToNumber(OrElse(order.quantity, N(0)))
        unit == ToNumber(OrElse(order.unitPrice, OrElse(order.price, N(0))))
    IN IF NotNullish(order.itemsTotal) /\ ~IsNaN(ToNumber(order.itemsTotal))
       THEN JAdd(ToNumber(order.itemsTotal), ToNumber(OrElse(order.deliveryFee, N(0))))
       ELSE IF NotNullish(order.grandTotal) /\ ~IsNaN(ToNumber(order.grandTotal))
       THEN ToNumber(order.grandTotal)
       ELSE JAdd(JMul(unit, q), ToNumber(OrElse(order.deliveryFee, N(0))))

computeOrderTotal(order) ==
    LET q == ToNumber(OrElse(order.quantity, N(0)))
        unit == ToNumber(OrElse(order.unitPrice, OrElse(order.price, N(0))))
    IN IF NotNullish(order.grandTotal) /\ ~IsNaN(ToNumber(order.grandTotal))
       THEN ToNumber(order.grandTotal)
       ELSE IF NotNullish(order.itemsTotal) /\ ~IsNaN(ToNumber(order.itemsTotal))
       THEN JAdd(ToNumber(order.itemsTotal), ToNumber(OrElse(order.deliveryFee, N(0))))
       ELSE JAdd(JMul(unit, q), ToNumber(OrElse(order.deliveryFee, N(0))))

-----------------------------------------------------------------------------
(* The two Firestore collections *)

\* f with key k bound to v (setting or adding a document)
Put(f, k, v) == [i \in DOMAIN f \cup {k} |-> IF i = k THEN v ELSE f[i]]

\* f without key k (deleteDoc)
Drop(f, k) == [i \in DOMAIN f \ {k} |-> f[i]]

\* the document doc with the fields of patch written over it (updateDoc,
\* and the object spread { ...doc, ...patch })
Merge(doc, patch) ==
    [f \in DOMAIN doc \cup DOMAIN patch |->
        IF f \in DOMAIN patch THEN patch[f] ELSE doc[f]]

\* the sequence without its i-th element
RemoveAt(seq, i) == SubSeq(seq, 1, i - 1) \o SubSeq(seq, i + 1, Len(seq))

Max(a, b) == IF a >= b THEN a ELSE b
Min(a, b) == IF a <= b THEN a ELSE b

\* the ids of a collection, newest first (orderBy("createdAt", "desc"))
RECURSIVE NewestFirst(_)
NewestFirst(ids) ==
    IF ids = {} THEN <<>>
    ELSE LET m == CHOOSE i \in ids : \A j \in ids : j <= i
         IN <<m>> \o NewestFirst(ids \ {m})

-----------------------------------------------------------------------------
(* OrderModal and the ProductPage that mounts it *)

NoProduct == [id |-> 0, title |-> <<>>, price |-> Undef]

\* the state of a freshly mounted modal; inst counts the modals mounted so far
ModalMounted(inst, product) ==
    [open |-> TRUE, inst |-> inst, product |-> product, quantity |-> 1,
     unitSize |-> "500g", deliveryType |-> "inside", loading |-> FALSE,
     showThanks |-> FALSE]

ModalClosed(inst) == [ModalMounted(inst, NoProduct) EXCEPT !.open = FALSE]

\* the values the modal derives on every render
PricePerKg == parsePriceToNumber(modal.product.price)
UnitPrice == unitPriceOf(PricePerKg, modal.unitSize)
ItemsTotal == itemsTotalOf(UnitPrice, modal.quantity)
DeliveryFee == deliveryFeeOf(modal.deliveryType)
GrandTotal == grandTotalOf(ItemsTotal, DeliveryFee)
TotalWeightKg == totalWeightKgOf(modal.unitSize, modal.quantity)

ModalOnly ==
    UNCHANGED <<dbProducts, dbOrders, nextOrderId, nextProductId, closeTimers,
                submits, notified, ordersPage, orderTasks, productsPage,
                productTasks, forms, weightIn, weightOut, shop>>

\* ProductPage: the product is loaded from Firestore and the order button
\* mounts the modal with it
OpenOrder(p) ==
    /\ ~modal.open
    /\ modal.inst < MaxOpens
    /\ p \in DOMAIN dbProducts
    /\ modal' = ModalMounted(modal.inst + 1,
                             [id |-> p, title |-> dbProducts[p].title,
                              price |-> dbProducts[p].price])
    /\ ModalOnly

\* onClose: ProductPage sets showOrder to false and the modal unmounts
onClose == ModalClosed(modal.inst)

\* Escape, the backdrop and the cancel button
CloseModal ==
    /\ modal.open
    /\ modal' = onClose
    /\ ModalOnly

\* the - button, the + button and typing into the quantity input
DecQuantity ==
    /\ modal.open
    /\ modal' = [modal EXCEPT !.quantity = Max(1, modal.quantity - 1)]
    /\ ModalOnly

IncQuantity ==
    /\ modal.open
    /\ modal.quantity < MaxQty
    /\ modal' = [modal EXCEPT !.quantity = Min(999, modal.quantity + 1)]
    /\ ModalOnly

TypeQuantity(v) ==
    /\ modal.open
    /\ modal' = [modal EXCEPT !.quantity = Max(1, v)]
    /\ ModalOnly

SetUnitSize(u) ==
    /\ modal.open
    /\ modal' = [modal EXCEPT !.unitSize = u]
    /\ ModalOnly

SetDeliveryType(d) ==
    /\ modal.open
    /\ modal' = [modal EXCEPT !.deliveryType = d]
    /\ ModalOnly

\* validate(): no error for any of the four fields
validateSansPhone(name, phone, address, quantity) ==
    /\ Trim(name) # <<>>
    /\ Trim(address) # <<>>
    /\ ~(quantity = 0 \/ quantity < 1)

validate(name, phone, address, quantity) ==
    /\ Trim(name) # <<>>
    /\ Len(OnlyDigits(phone)) >= 10
    /\ Trim(address) # <<>>
    /\ ~(quantity = 0 \/ quantity < 1)

\* the document handleSubmit hands to addDoc, from what the modal renders
OrderDoc(product, unitSize, quantity, deliveryType) ==
    [productId |-> product.id,
     productTitle |-> product.title,
     pricePerKg |-> parsePriceToNumber(product.price),
     unitSize |-> unitSize,
     unitWeightGram |-> JMul(unitKgOf(unitSize), Num(1000)),
     unitPrice |-> unitPriceOf(parsePriceToNumber(product.price), unitSize),
     quantity |-> Num(quantity),
     totalWeightKg |-> totalWeightKgOf(unitSize, quantity),
     itemsTotal |-> itemsTotalOf(unitPriceOf(parsePriceToNumber(product.price), unitSize), quantity),
     deliveryType |-> deliveryType,
     deliveryFee |-> deliveryFeeOf(deliveryType),
     grandTotal |-> grandTotalOf(
         itemsTotalOf(unitPriceOf(parsePriceToNumber(product.price), unitSize), quantity),
         deliveryFeeOf(deliveryType)),
     unitWeightKg |-> Undef,
     unitWeight |-> Undef,
     weightLabel |-> Undef,
     price |-> Undef,
     status |-> "pending"]

OrderPayload == OrderDoc(modal.product, modal.unitSize, modal.quantity, modal.deliveryType)

\* handleSubmit up to its await: validation, then the addDoc request
HandleSubmit(name, phone, address) ==
    /\ modal.open
    /\ ~modal.loading
    /\ IF validate(name, phone, address, modal.quantity)
       THEN /\ CanStart
            /\ modal' = [modal EXCEPT !.loading = TRUE]
            /\ submits' = submits \cup
                  {[inst |-> modal.inst, doc |-> OrderPayload,
                    customer |-> [name |-> name, phone |-> phone, address |-> address]]}
       ELSE UNCHANGED <<modal, submits>>
    /\ UNCHANGED <<dbProducts, dbOrders, nextOrderId, nextProductId, closeTimers,
                   notified, ordersPage, orderTasks, productsPage, productTasks,
                   forms, weightIn, weightOut, shop>>

AddOrderSettleNotifiesAnyway(c, ok) ==
    /\ c \in submits
    /\ submits' = submits \ {c}
    /\ LET mounted == modal.open /\ modal.inst = c.inst IN
       IF ok
       THEN /\ nextOrderId <= MaxOrders
            /\ dbOrders' = Put(dbOrders, nextOrderId, c.doc)
            /\ nextOrderId' = nextOrderId + 1
            /\ notified' = Append(notified, [order |-> nextOrderId, result |-> "pending"])
            /\ closeTimers' = closeTimers \cup {c.inst}
            /\ modal' = IF mounted
                        THEN [modal EXCEPT !.loading = FALSE, !.showThanks = TRUE,
                                 !.quantity = 1, !.unitSize = "500g",
                                 !.deliveryType = "inside"]
                        ELSE modal
       ELSE /\ modal' = IF mounted THEN [modal EXCEPT !.loading = FALSE] ELSE modal
            /\ notified' = Append(notified, [order |-> nextOrderId, result |-> "pending"])
            /\ UNCHANGED <<dbOrders, nextOrderId, closeTimers>>
    /\ UNCHANGED <<dbProducts, nextProductId, ordersPage, orderTasks,
                   productsPage, productTasks, forms, weightIn, weightOut, shop>>

\* addDoc settles and the rest of handleSubmit runs.  State setters of a
\* modal that has been unmounted meanwhile do nothing; the webhook and the
\* auto-close timer are started all the same.
AddOrderSettle(c, ok) ==
    /\ c \in submits
    /\ submits' = submits \ {c}
    /\ LET mounted == modal.open /\ modal.inst = c.inst IN
       IF ok
       THEN /\ nextOrderId <= MaxOrders
            /\ dbOrders' = Put(dbOrders, nextOrderId, c.doc)
            /\ nextOrderId' = nextOrderId + 1
            /\ notified' = Append(notified, [order |-> nextOrderId, result |-> "pending"])
            /\ closeTimers' = closeTimers \cup {c.inst}
            /\ modal' = IF mounted
                        THEN [modal EXCEPT !.loading = FALSE, !.showThanks = TRUE,
                                 !.quantity = 1, !.unitSize = "500g",
                                 !.deliveryType = "inside"]
                        ELSE modal
       ELSE /\ modal' = IF mounted THEN [modal EXCEPT !.loading = FALSE] ELSE modal
            /\ UNCHANGED <<dbOrders, nextOrderId, notified, closeTimers>>
    /\ UNCHANGED <<dbProducts, nextProductId, ordersPage, orderTasks,
                   productsPage, productTasks, forms, weightIn, weightOut, shop>>

\* the fetch of the webhook post k settles; a failure is caught and logged
NotifySettle(k, ok) ==
    /\ k \in 1..Len(notified)
    /\ notified[k].result = "pending"
    /\ notified' = [notified EXCEPT ![k].result = IF ok THEN "delivered" ELSE "failed"]
    /\ UNCHANGED <<dbProducts, dbOrders, nextOrderId, nextProductId, modal, closeTimers,
                   submits, ordersPage, orderTasks, productsPage, productTasks,
                   forms, weightIn, weightOut, shop>>

\* the 3.2 s timer of modal instance i fires: setShowThanks(false); onClose()
AutoClose(i) ==
    /\ i \in closeTimers
    /\ closeTimers' = closeTimers \ {i}
    /\ modal' = IF modal.open THEN onClose ELSE modal
    /\ UNCHANGED <<dbProducts, dbOrders, nextOrderId, nextProductId, submits,
                   notified, ordersPage, orderTasks, productsPage, productTasks,
                   forms, weightIn, weightOut, shop>>

\* the button of the thank-you popup: setShowThanks(false); onClose()
ThanksOk ==
    /\ modal.open
    /\ modal.showThanks
    /\ modal' = onClose
    /\ ModalOnly

-----------------------------------------------------------------------------
(* AllProducts.tsx and ProductPage.tsx: the load effects of the public pages.
   A page is mounted by navigating to it and unmounted by navigating away;
   every mount is a new instance with its own `mounted` flag.  `late` holds
   the state setters that were called for an instance after its unmount. *)

\* AdminLayout is not mounted: the route is a public one.  `auth` is the
\* signed-in state of the authentication service, `events` the values its
\* observer has still to hand to the callback of AdminLayout, `user` the
\* user state of AdminLayout and `view` what the router has mounted.
AdminAway ==
    [mounted |-> FALSE, route |-> "/", user |-> FALSE, busy |-> FALSE,
     auth |-> FALSE, events |-> <<>>, calls |-> {}, view |-> "none"]

ShopClosed ==
    [all |-> [inst |-> 0, mounted |-> FALSE, loading |-> FALSE, error |-> FALSE,
              listed |-> "none"],
     page |-> [inst |-> 0, mounted |-> FALSE, loading |-> FALSE, error |-> "",
               product |-> FALSE],
     loads |-> {},
     late |-> {},
     admin |-> AdminAway]

ShopOnly ==
    UNCHANGED <<dbProducts, dbOrders, nextOrderId, nextProductId, modal, closeTimers,
                submits, notified, ordersPage, orderTasks, productsPage, productTasks,
                forms, weightIn, weightOut>>

\* the calls the setters named in `setters` make for instance inst of page
\* `of`: they reach its state while it is mounted, and are late otherwise
LateCalls(of, inst, setters) == {[of |-> of, inst |-> inst, setter |-> x] : x \in setters}

\* AllProducts mounts: its effect calls load(), which awaits getDocs
MountAllProducts ==
    /\ ~shop.all.mounted
    /\ shop.all.inst < MaxOpens
    /\ shop' = [shop EXCEPT
          !.all = [inst |-> shop.all.inst + 1, mounted |-> TRUE, loading |-> TRUE,
                   error |-> FALSE, listed |-> "none"],
          !.loads = @ \cup {[of |-> "all", inst |-> shop.all.inst + 1]}]
    /\ ShopOnly

\* navigation away from AllProducts: the cleanup sets mounted = false
UnmountAllProducts ==
    /\ shop.all.mounted
    /\ shop' = [shop EXCEPT !.all.mounted = FALSE]
    /\ ShopOnly

\* getDocs of load() settles.  try: `if (!mounted) return; setProducts(..)`;
\* catch: setError(..); setProducts(LOCAL_PRODUCTS), with no look at
\* `mounted`; finally: `if (mounted) setLoading(false)`
LoadSettle(inst, ok) ==
    /\ [of |-> "all", inst |-> inst] \in shop.loads
    /\ LET here == shop.all.mounted /\ shop.all.inst = inst IN
       shop' = [shop EXCEPT
          !.loads = @ \ {[of |-> "all", inst |-> inst]},
          !.all = IF ~here THEN @
                  ELSE IF ok THEN [@ EXCEPT !.listed = "merged", !.loading = FALSE]
                  ELSE [@ EXCEPT !.error = TRUE, !.listed = "local", !.loading = FALSE],
          !.late = IF here \/ ok THEN @
                   ELSE @ \cup LateCalls("all", inst, {"setError", "setProducts"})]
    /\ ShopOnly

\* ProductPage mounts on a product that is neither in the navigation state
\* nor in the local list: fetchIfNeeded awaits getDoc
MountProductPage ==
    /\ ~shop.page.mounted
    /\ shop.page.inst < MaxOpens
    /\ shop' = [shop EXCEPT
          !.page = [inst |-> shop.page.inst + 1, mounted |-> TRUE, loading |-> TRUE,
                    error |-> "", product |-> FALSE],
          !.loads = @ \cup {[of |-> "page", inst |-> shop.page.inst + 1]}]
    /\ ShopOnly

\* navigation away from ProductPage, the order modal closed
UnmountProductPage ==
    /\ shop.page.mounted
    /\ ~modal.open
    /\ shop' = [shop EXCEPT !.page.mounted = FALSE]
    /\ ShopOnly

\* getDoc of fetchIfNeeded settles with the document, with none, or with
\* an error; every setter call is behind `if (mounted)`
FetchSettle(inst, outcome) ==
    /\ [of |-> "page", inst |-> inst] \in shop.loads
    /\ LET here == shop.page.mounted /\ shop.page.inst = inst IN
       shop' = [shop EXCEPT
          !.loads = @ \ {[of |-> "page", inst |-> inst]},
          !.page = IF ~here THEN @
                   ELSE IF outcome = "found"
                   THEN [@ EXCEPT !.product = TRUE, !.loading = FALSE]
                   ELSE IF outcome = "missing"
                   THEN [@ EXCEPT !.error = "Product not found", !.loading = FALSE]
                   ELSE [@ EXCEPT !.error = "Failed to load product", !.loading = FALSE]]
    /\ ShopOnly

-----------------------------------------------------------------------------
(* AdminLayout.tsx and the admin routes of App *)

AdminRoutes ==
    {"/admin", "/admin/dashboard", "/admin/orders", "/admin/add-product",
     "/admin/products"}

AdminViews == {"Dashboard", "Orders", "AddProduct", "Products"}

\* the element the Routes of App give the Outlet of AdminLayout
RouteView(route) ==
    CASE route = "/admin" -> "Dashboard"
      [] route = "/admin/dashboard" -> "Dashboard"
      [] route = "/admin/orders" -> "Orders"
      [] route = "/admin/add-product" -> "AddProduct"
      [] route = "/admin/products" -> "Products"
      [] OTHER -> "none"

AdminRenderUngated(a) ==
    IF ~a.mounted THEN "none" ELSE RouteView(a.route)

\* what AdminLayout renders: the login form while user is null, the layout
\* with the Outlet otherwise
AdminRender(a) ==
    IF ~a.mounted THEN "none"
    ELSE IF ~a.user THEN "login"
    ELSE RouteView(a.route)

\* the admin state a after a render
Shown(a) == [a EXCEPT !.view = AdminRender(a)]

\* navigation to an admin route; when AdminLayout was not mounted it mounts
\* with user = null and its effect subscribes to the authentication state,
\* which is then handed to the callback
VisitAdmin(r) ==
    /\ r \in AdminRoutes
    /\ shop.admin.route # r
    /\ LET a == shop.admin IN
       shop' = [shop EXCEPT !.admin =
          IF a.mounted THEN Shown([a EXCEPT !.route = r])
          ELSE Shown([a EXCEPT !.mounted = TRUE, !.route = r, !.user = FALSE,
                               !.busy = FALSE, !.events = <<a.auth>>])]
    /\ ShopOnly

\* navigation to a public route: AdminLayout unmounts and unsubscribes
LeaveAdmin ==
    /\ shop.admin.mounted
    /\ shop' = [shop EXCEPT !.admin =
          Shown([@ EXCEPT !.mounted = FALSE, !.route = "/", !.user = FALSE,
                          !.busy = FALSE, !.events = <<>>])]
    /\ ShopOnly

\* the callback of onAuthStateChanged runs: setUser(u), and navigate to
\* /admin when u is null
AuthChanged ==
    /\ shop.admin.mounted
    /\ shop.admin.events # <<>>
    /\ LET u == Head(shop.admin.events) IN
       shop' = [shop EXCEPT !.admin =
          Shown([@ EXCEPT !.user = u, !.events = Tail(@),
                          !.route = IF u THEN @ ELSE "/admin"])]
    /\ ShopOnly

\* the authentication state changes to u: the observer is told, when one
\* is subscribed
AuthSet(a, u) ==
    [a EXCEPT !.auth = u,
              !.events = IF a.mounted /\ a.auth # u THEN Append(@, u) ELSE @]

\* the calls in flight and the changes the observer has still to deliver
AuthPending == Cardinality(shop.admin.calls) + Len(shop.admin.events)

\* login up to its await
login ==
    /\ shop.admin.mounted
    /\ ~shop.admin.user
    /\ ~shop.admin.busy
    /\ AuthPending < MaxInflight
    /\ shop' = [shop EXCEPT !.admin =
          Shown([@ EXCEPT !.busy = TRUE, !.calls = @ \cup {"login"}])]
    /\ ShopOnly

\* signInWithEmailAndPassword settles
loginSettle(ok) ==
    /\ "login" \in shop.admin.calls
    /\ LET a == [shop.admin EXCEPT !.calls = @ \ {"login"}]
           b == IF ok THEN AuthSet(a, TRUE) ELSE a
       IN shop' = [shop EXCEPT !.admin =
             Shown(IF b.mounted THEN [b EXCEPT !.busy = FALSE] ELSE b)]
    /\ ShopOnly

\* logout up to its await
logout ==
    /\ shop.admin.mounted
    /\ shop.admin.user
    /\ "logout" \notin shop.admin.calls
    /\ AuthPending < MaxInflight
    /\ shop' = [shop EXCEPT !.admin.calls = @ \cup {"logout"}]
    /\ ShopOnly

\* signOut settles; on success logout navigates to /admin
logoutSettle(ok) ==
    /\ "logout" \in shop.admin.calls
    /\ LET a == [shop.admin EXCEPT !.calls = @ \ {"logout"}]
           b == IF ok THEN AuthSet(a, FALSE) ELSE a
       IN shop' = [shop EXCEPT !.admin =
             Shown(IF ok THEN [b EXCEPT !.mounted = TRUE, !.route = "/admin",
                                        !.user = IF a.mounted THEN @ ELSE FALSE,
                                        !.events = IF a.mounted THEN @ ELSE <<FALSE>>]
                   ELSE b)]
    /\ ShopOnly

\* the session ends elsewhere: the token expires or is revoked
SessionEnds ==
    /\ shop.admin.auth
    /\ AuthPending < MaxInflight
    /\ shop' = [shop EXCEPT !.admin = Shown(AuthSet(@, FALSE))]
    /\ ShopOnly

-----------------------------------------------------------------------------
(* Orders.tsx: the admin Orders component *)

\* one row of the orders state: the document, its id and the derived fields
OrderRow(id, doc) ==
    [id |-> id, doc |-> doc, weightKg |-> computeOrderWeightKg(doc),
     grandTotal |-> computeOrderTotal(doc)]

\* what getDocs(query(orders, orderBy createdAt desc)) is mapped to
FetchedOrders ==
    LET ids == NewestFirst(DOMAIN dbOrders)
    IN [i \in 1..Len(ids) |-> OrderRow(ids[i], dbOrders[ids[i]])]

RowIds == {ordersPage.orders[i].id : i \in 1..Len(ordersPage.orders)}

\* the selected object: its keys in insertion order, each with its flag
SelectedKeys(sel) == {sel[i].id : i \in 1..Len(sel)}
SetSelected(sel, id, on) ==
    IF id \in SelectedKeys(sel)
    THEN [i \in 1..Len(sel) |-> IF sel[i].id = id THEN [id |-> id, on |-> on] ELSE sel[i]]
    ELSE Append(sel, [id |-> id, on |-> on])
IsSelected(sel, id) == \E i \in 1..Len(sel) : sel[i].id = id /\ sel[i].on
DeleteSelected(sel, id) == SelectSeq(sel, LAMBDA e : e.id # id)

\* Object.keys(selected).filter((k) => selected[k])
SelectedIds(sel) ==
    LET on == SelectSeq(sel, LAMBDA e : e.on)
    IN [i \in 1..Len(on) |-> on[i].id]

OrdersOnly ==
    UNCHANGED <<dbProducts, dbOrders, nextOrderId, nextProductId, modal,
                closeTimers, submits, notified, orderTasks, productsPage,
                productTasks, forms, weightIn, weightOut, shop>>

OrdersAndTasks ==
    UNCHANGED <<dbProducts, dbOrders, nextOrderId, nextProductId, modal,
                closeTimers, submits, notified, productsPage, productTasks,
                forms, weightIn, weightOut, shop>>

OrdersTasksAndDb ==
    UNCHANGED <<dbProducts, nextOrderId, nextProductId, modal, closeTimers,
                submits, notified, productsPage, productTasks, forms, weightIn,
                weightOut, shop>>

\* the fields confirmOrder and bulkConfirm write
ConfirmPatchRewritesTotal == [status |-> "confirmed", grandTotal |-> N(0)]
ConfirmPatchOtherStatus == [status |-> "shipped"]
ConfirmPatch == [status |-> "confirmed"]

CanStartOrderTask(t) == t \notin orderTasks /\ CanStart

\* fetchOrders up to its await (the Refresh button)
FetchOrders ==
    /\ CanStartOrderTask([op |-> "fetch"])
    /\ ordersPage' = [ordersPage EXCEPT !.busy = TRUE]
    /\ orderTasks' = orderTasks \cup {[op |-> "fetch"]}
    /\ OrdersAndTasks

\* getDocs settles: setOrders on success, setBusy(false) in any case
FetchOrdersSettle(ok) ==
    /\ [op |-> "fetch"] \in orderTasks
    /\ orderTasks' = orderTasks \ {[op |-> "fetch"]}
    /\ ordersPage' = [ordersPage EXCEPT
                         !.orders = IF ok THEN FetchedOrders ELSE @,
                         !.busy = FALSE]
    /\ OrdersAndTasks

toggleSelect(id) ==
    /\ id \in RowIds
    /\ ordersPage' = [ordersPage EXCEPT
                         !.selected = SetSelected(@, id, ~IsSelected(@, id))]
    /\ OrdersOnly

\* the select-all checkbox of the table header
SelectAll(checked) ==
    /\ ordersPage' = [ordersPage EXCEPT
                         !.selected = [i \in 1..Len(ordersPage.orders) |->
                                          [id |-> ordersPage.orders[i].id,
                                           on |-> checked]]]
    /\ OrdersOnly

\* confirmOrder up to its await; the button shows for rows not yet confirmed
confirmOrder(id) ==
    /\ \E i \in 1..Len(ordersPage.orders) :
          /\ ordersPage.orders[i].id = id
          /\ ordersPage.orders[i].doc.status # "confirmed"
    /\ ordersPage.confirmingId # id
    /\ CanStartOrderTask([op |-> "confirm", id |-> id])
    /\ ordersPage' = [ordersPage EXCEPT !.confirmingId = id]
    /\ orderTasks' = orderTasks \cup {[op |-> "confirm", id |-> id]}
    /\ OrdersAndTasks

confirmOrderSettleOptimistic(id, ok) ==
    /\ [op |-> "confirm", id |-> id] \in orderTasks
    /\ orderTasks' = orderTasks \ {[op |-> "confirm", id |-> id]}
    /\ ok => id \in DOMAIN dbOrders
    /\ dbOrders' = IF ok THEN Put(dbOrders, id, Merge(dbOrders[id], ConfirmPatch))
                   ELSE dbOrders
    /\ ordersPage' = [ordersPage EXCEPT
          !.orders = [i \in 1..Len(@) |->
                        IF @[i].id = id
                        THEN [@[i] EXCEPT !.doc = Merge(@, ConfirmPatch)]
                        ELSE @[i]],
          !.selected = SetSelected(@, id, FALSE),
          !.confirmingId = 0]
    /\ OrdersTasksAndDb

\* updateDoc of confirmOrder settles; it fails for a document that is gone
confirmOrderSettle(id, ok) ==
    /\ [op |-> "confirm", id |-> id] \in orderTasks
    /\ orderTasks' = orderTasks \ {[op |-> "confirm", id |-> id]}
    /\ IF ok
       THEN /\ id \in DOMAIN dbOrders
            /\ dbOrders' = Put(dbOrders, id, Merge(dbOrders[id], ConfirmPatch))
            /\ ordersPage' = [ordersPage EXCEPT
                 !.orders = [i \in 1..Len(@) |->
                               IF @[i].id = id
                               THEN [@[i] EXCEPT !.doc = Merge(@, ConfirmPatch)]
                               ELSE @[i]],
                 !.selected = SetSelected(@, id, FALSE),
                 !.confirmingId = 0]
       ELSE /\ ordersPage' = [ordersPage EXCEPT !.confirmingId = 0]
            /\ UNCHANGED dbOrders
    /\ OrdersTasksAndDb

\* deleteOrder up to its await, the confirm() dialog accepted
deleteOrder(id) ==
    /\ id \in RowIds
    /\ ordersPage.deletingId # id
    /\ CanStartOrderTask([op |-> "delete", id |-> id])
    /\ ordersPage' = [ordersPage EXCEPT !.deletingId = id]
    /\ orderTasks' = orderTasks \cup {[op |-> "delete", id |-> id]}
    /\ OrdersAndTasks

deleteOrderSettle(id, ok) ==
    /\ [op |-> "delete", id |-> id] \in orderTasks
    /\ orderTasks' = orderTasks \ {[op |-> "delete", id |-> id]}
    /\ IF ok
       THEN /\ dbOrders' = Drop(dbOrders, id)
            /\ ordersPage' = [ordersPage EXCEPT
                 !.orders = SelectSeq(@, LAMBDA o : o.id # id),
                 !.selected = DeleteSelected(@, id),
                 !.deletingId = 0]
       ELSE /\ ordersPage' = [ordersPage EXCEPT !.deletingId = 0]
            /\ UNCHANGED dbOrders
    /\ OrdersTasksAndDb

IsBulk(t) == t.op \in {"bulkConfirm", "bulkDelete"}

\* bulkConfirm and bulkDelete up to the first await of their loop; the
\* buttons are disabled while nothing is selected or busy is set
StartBulk(op) ==
    /\ Len(SelectedIds(ordersPage.selected)) > 0
    /\ ~ordersPage.busy
    /\ CanStart
    /\ ordersPage' = [ordersPage EXCEPT !.busy = TRUE]
    /\ orderTasks' = orderTasks \cup
          {[op |-> op, ids |-> SelectedIds(ordersPage.selected), i |-> 1]}
    /\ OrdersAndTasks

bulkConfirm == StartBulk("bulkConfirm")
bulkDelete == StartBulk("bulkDelete")

BulkStepGoesOn(t, ok) ==
    /\ t \in orderTasks
    /\ IsBulk(t)
    /\ t.i <= Len(t.ids)
    /\ IF ok
       THEN /\ t.op = "bulkConfirm" => t.ids[t.i] \in DOMAIN dbOrders
            /\ dbOrders' =
                 IF t.op = "bulkConfirm"
                 THEN Put(dbOrders, t.ids[t.i],
                          Merge(dbOrders[t.ids[t.i]], ConfirmPatch))
                 ELSE Drop(dbOrders, t.ids[t.i])
            /\ orderTasks' = (orderTasks \ {t}) \cup {[t EXCEPT !.i = t.i + 1]}
            /\ ordersPage' = IF t.i = Len(t.ids)
                             THEN [ordersPage EXCEPT !.busy = TRUE]
                             ELSE ordersPage
       ELSE /\ orderTasks' = (orderTasks \ {t}) \cup {[t EXCEPT !.i = t.i + 1]}
            /\ ordersPage' = IF t.i = Len(t.ids)
                             THEN [ordersPage EXCEPT !.busy = TRUE]
                             ELSE ordersPage
            /\ UNCHANGED dbOrders
    /\ OrdersTasksAndDb

\* One persistence call of the loop settles.  On success the loop goes on,
\* and after the last item fetchOrders is called (busy set again); on
\* failure the catch and finally blocks run.
BulkStep(t, ok) ==
    /\ t \in orderTasks
    /\ IsBulk(t)
    /\ t.i <= Len(t.ids)
    /\ IF ok
       THEN /\ t.op = "bulkConfirm" => t.ids[t.i] \in DOMAIN dbOrders
            /\ dbOrders' =
                 IF t.op = "bulkConfirm"
                 THEN Put(dbOrders, t.ids[t.i],
                          Merge(dbOrders[t.ids[t.i]], ConfirmPatch))
                 ELSE Drop(dbOrders, t.ids[t.i])
            /\ orderTasks' = (orderTasks \ {t}) \cup {[t EXCEPT !.i = t.i + 1]}
            /\ ordersPage' = IF t.i = Len(t.ids)
                             THEN [ordersPage EXCEPT !.busy = TRUE]
                             ELSE ordersPage
       ELSE /\ orderTasks' = orderTasks \ {t}
            /\ ordersPage' = [ordersPage EXCEPT !.busy = FALSE]
            /\ UNCHANGED dbOrders
    /\ OrdersTasksAndDb

\* the getDocs of the fetchOrders a bulk operation awaits settles; then
\* setSelected({}) and the finally block run
BulkFetchSettle(t, ok) ==
    /\ t \in orderTasks
    /\ IsBulk(t)
    /\ t.i > Len(t.ids)
    /\ orderTasks' = orderTasks \ {t}
    /\ ordersPage' = [ordersPage EXCEPT
                         !.orders = IF ok THEN FetchedOrders ELSE @,
                         !.selected = <<>>,
                         !.busy = FALSE]
    /\ OrdersAndTasks

-----------------------------------------------------------------------------
(* Products.tsx: the AdminProducts component.  A product document is modelled
   by its title, slug and price; description, images, regular price and
   category are written by the same calls and read by no property here. *)

NoEdit == [id |-> 0]

FetchedProducts ==
    LET ids == NewestFirst(DOMAIN dbProducts)
    IN [i \in 1..Len(ids) |-> [id |-> ids[i], doc |-> dbProducts[ids[i]]]]

ProductRowIds == {productsPage.products[i].id : i \in 1..Len(productsPage.products)}

ProductsOnly ==
    UNCHANGED <<dbProducts, dbOrders, nextOrderId, nextProductId, modal,
                closeTimers, submits, notified, ordersPage, orderTasks,
                productTasks, forms, weightIn, weightOut, shop>>

ProductsAndTasks ==
    UNCHANGED <<dbProducts, dbOrders, nextOrderId, nextProductId, modal,
                closeTimers, submits, notified, ordersPage, orderTasks, forms,
                weightIn, weightOut, shop>>

ProductsTasksAndDb ==
    UNCHANGED <<dbOrders, nextOrderId, nextProductId, modal, closeTimers,
                submits, notified, ordersPage, orderTasks, forms, weightIn,
                weightOut, shop>>

CanStartProductTask(t) == t \notin productTasks /\ CanStart

\* fetchProducts up to its await
fetchProducts ==
    /\ CanStartProductTask([op |-> "fetch"])
    /\ productsPage' = [productsPage EXCEPT !.loading = TRUE]
    /\ productTasks' = productTasks \cup {[op |-> "fetch"]}
    /\ ProductsAndTasks

fetchProductsSettle(ok) ==
    /\ [op |-> "fetch"] \in productTasks
    /\ productTasks' = productTasks \ {[op |-> "fetch"]}
    /\ productsPage' = [productsPage EXCEPT
                           !.products = IF ok THEN FetchedProducts ELSE @,
                           !.loading = FALSE]
    /\ ProductsAndTasks

\* openEdit(p): the edit dialog opens on a copy of row p
openEdit(id) ==
    /\ \E i \in 1..Len(productsPage.products) :
          LET p == productsPage.products[i] IN
          /\ p.id = id
          /\ productsPage' = [productsPage EXCEPT !.editing =
                [id |-> id,
                 slug |-> IF NotNullish(p.doc.slug) THEN p.doc.slug.s ELSE <<>>,
                 title |-> p.doc.title,
                 price |-> IF p.doc.price.t = "num" THEN p.doc.price
                           ELSE IF Truthy(p.doc.price) THEN ToNumber(p.doc.price)
                           ELSE N(0)]]
    /\ ProductsOnly

\* the inputs of the edit dialog, and its Cancel button
EditTitle(v) ==
    /\ productsPage.editing # NoEdit
    /\ productsPage' = [productsPage EXCEPT !.editing.title = v]
    /\ ProductsOnly

EditSlug(v) ==
    /\ productsPage.editing # NoEdit
    /\ productsPage' = [productsPage EXCEPT !.editing.slug = v]
    /\ ProductsOnly

EditPrice(v) ==
    /\ productsPage.editing # NoEdit
    /\ productsPage' = [productsPage EXCEPT !.editing.price = ToNumber(v)]
    /\ ProductsOnly

CancelEdit ==
    /\ productsPage.editing # NoEdit
    /\ productsPage' = [productsPage EXCEPT !.editing = NoEdit]
    /\ ProductsOnly

\* parseNumber of saveEdit, then ?? 0
parseNumberOrZero(v) ==
    IF v.t \in {"undef", "null"} \/ (v.t = "str" /\ v.s = <<>>) THEN N(0)
    ELSE IF v.t = "num" THEN v
    ELSE IF v.t = "nan" THEN v
    ELSE LET n == ParseFloat(SelectSeq(v.s, LAMBDA c : c \in DigitChars \cup {".", "-"}))
         IN IF IsNaN(n) THEN N(0) ELSE n

\* the payload with the slug field written whatever it holds
EditPayloadAlwaysSlug(editing) ==
    [title |-> Trim(editing.title),
     price |-> parseNumberOrZero(editing.price),
     slug |-> Str(Trim(editing.slug))]

\* the payload saveEdit builds: the slug only when one was entered
EditPayload(editing) ==
    LET base == [title |-> Trim(editing.title),
                 price |-> parseNumberOrZero(editing.price)]
    IN IF Trim(editing.slug) = <<>> THEN base
       ELSE Merge(base, [slug |-> Str(Trim(editing.slug))])

\* saveEdit up to its await
saveEdit ==
    /\ productsPage.editing # NoEdit
    /\ ~productsPage.saving
    /\ IF Trim(productsPage.editing.title) = <<>>
       THEN UNCHANGED <<productsPage, productTasks>>
       ELSE LET t == [op |-> "save", id |-> productsPage.editing.id,
                      payload |-> EditPayload(productsPage.editing)]
            IN /\ CanStartProductTask(t)
               /\ productsPage' = [productsPage EXCEPT !.saving = TRUE]
               /\ productTasks' = productTasks \cup {t}
    /\ ProductsAndTasks

\* updateDoc of saveEdit settles; it fails for a document that is gone
saveEditSettle(t, ok) ==
    /\ t \in productTasks
    /\ t.op = "save"
    /\ productTasks' = productTasks \ {t}
    /\ IF ok
       THEN /\ t.id \in DOMAIN dbProducts
            /\ dbProducts' = Put(dbProducts, t.id, Merge(dbProducts[t.id], t.payload))
            /\ productsPage' = [productsPage EXCEPT
                 !.products = [i \in 1..Len(@) |->
                                 IF @[i].id = t.id
                                 THEN [@[i] EXCEPT !.doc = Merge(@, t.payload)]
                                 ELSE @[i]],
                 !.editing = NoEdit,
                 !.saving = FALSE]
       ELSE /\ productsPage' = [productsPage EXCEPT !.saving = FALSE]
            /\ UNCHANGED dbProducts
    /\ ProductsTasksAndDb

\* deleteProduct up to its await, the confirm dialog accepted
deleteProduct(id) ==
    /\ id \in ProductRowIds
    /\ CanStartProductTask([op |-> "delete", id |-> id])
    /\ productTasks' = productTasks \cup {[op |-> "delete", id |-> id]}
    /\ UNCHANGED productsPage
    /\ ProductsAndTasks

deleteProductSettle(id, ok) ==
    /\ [op |-> "delete", id |-> id] \in productTasks
    /\ productTasks' = productTasks \ {[op |-> "delete", id |-> id]}
    /\ IF ok
       THEN /\ dbProducts' = Drop(dbProducts, id)
            /\ productsPage' = [productsPage EXCEPT
                 !.products = SelectSeq(@, LAMBDA p : p.id # id),
                 !.selected = DeleteSelected(@, id)]
       ELSE UNCHANGED <<dbProducts, productsPage>>
    /\ ProductsTasksAndDb

\* toggleSelect(id) of AdminProducts
toggleSelectProduct(id) ==
    /\ id \in ProductRowIds
    /\ productsPage' = [productsPage EXCEPT
                           !.selected = SetSelected(@, id, ~IsSelected(@, id))]
    /\ ProductsOnly

IsProductBulk(t) == t.op = "bulkDelete"

\* a number no running batch of AdminProducts carries (two batches may run
\* at once: the button is never disabled)
FreeBatch ==
    CHOOSE n \in 1..(MaxInflight + 1) :
        \A t \in productTasks : IsProductBulk(t) => t.n # n

\* bulkDelete of AdminProducts up to the first await of its loop
bulkDeleteProducts ==
    /\ Len(SelectedIds(productsPage.selected)) > 0
    /\ CanStart
    /\ productTasks' = productTasks \cup
          {[op |-> "bulkDelete", ids |-> SelectedIds(productsPage.selected),
            i |-> 1, n |-> FreeBatch]}
    /\ UNCHANGED productsPage
    /\ ProductsAndTasks

\* One deleteDoc of the loop settles.  On success the loop goes on, and
\* after the last item fetchProducts is called; on failure the catch block
\* runs and the function ends.
ProductBulkStep(t, ok) ==
    /\ t \in productTasks
    /\ IsProductBulk(t)
    /\ t.i <= Len(t.ids)
    /\ IF ok
       THEN /\ dbProducts' = Drop(dbProducts, t.ids[t.i])
            /\ productTasks' = (productTasks \ {t}) \cup {[t EXCEPT !.i = t.i + 1]}
            /\ productsPage' = IF t.i = Len(t.ids)
                               THEN [productsPage EXCEPT !.loading = TRUE]
                               ELSE productsPage
       ELSE /\ productTasks' = productTasks \ {t}
            /\ UNCHANGED <<dbProducts, productsPage>>
    /\ ProductsTasksAndDb

\* the getDocs of the fetchProducts the batch awaits settles; then
\* setSelected({}) runs
ProductBulkFetchSettle(t, ok) ==
    /\ t \in productTasks
    /\ IsProductBulk(t)
    /\ t.i > Len(t.ids)
    /\ productTasks' = productTasks \ {t}
    /\ productsPage' = [productsPage EXCEPT
                           !.products = IF ok THEN FetchedProducts ELSE @,
                           !.selected = <<>>,
                           !.loading = FALSE]
    /\ ProductsAndTasks

-----------------------------------------------------------------------------
(* Inputs *)

NameInputs == {<<>>, <<" ">>, <<"R", "a", "n", "a">>}
PhoneInputs == {<<>>, <<"0", "1", "7", "-", "1", "2", "3">>,
                <<"0", "1", "7", "1", "2", "-", "3", "4", "5", "6", "7", "8">>}
AddressInputs == {<<>>, <<"D", "h", "a", "k", "a">>}
UnitSizes == {"500g", "1kg"}
DeliveryTypes == {"inside", "outside"}
EditTitleInputs == {<<>>, <<"G", "h", "e", "e">>}
EditPriceInputs == {Str(<<"2", "0", "0">>)}

-----------------------------------------------------------------------------
(* Initial states of the components *)

ProductsAtStart ==
    <<[title |-> <<"H", "o", "n", "e", "y">>, slug |-> Str(<<"h">>), price |-> Num(500)],
      [title |-> <<"R", "i", "c", "e">>, slug |-> Undef, price |-> Num(75)]>>

\* the orders collection holds MaxOrders - 1 orders placed earlier through
\* the modal, for the first product with the modal's defaults
OrdersAtStart ==
    [i \in 1..(MaxOrders - 1) |->
        OrderDoc([id |-> 1, title |-> ProductsAtStart[1].title,
                  price |-> ProductsAtStart[1].price], "500g", 1, "inside")]

StoreInit ==
    /\ dbProducts = ProductsAtStart
    /\ nextProductId = Len(ProductsAtStart) + 1
    /\ dbOrders = OrdersAtStart
    /\ nextOrderId = MaxOrders

\* neither public page has been visited yet
ShopIdle == shop = ShopClosed

ModalIdle ==
    /\ modal = ModalClosed(0)
    /\ closeTimers = {}
    /\ submits = {}
    /\ notified = <<>>

OrdersIdle ==
    /\ ordersPage = [orders |-> <<>>, selected |-> <<>>, busy |-> FALSE,
                     deletingId |-> 0, confirmingId |-> 0]
    /\ orderTasks = {}

\* the Orders component has just mounted: its effect called fetchOrders
OrdersMounted ==
    /\ ordersPage = [orders |-> <<>>, selected |-> <<>>, busy |-> TRUE,
                     deletingId |-> 0, confirmingId |-> 0]
    /\ orderTasks = {[op |-> "fetch"]}

ProductsIdle ==
    /\ productsPage = [products |-> <<>>, selected |-> <<>>, editing |-> NoEdit,
                       saving |-> FALSE, loading |-> FALSE]
    /\ productTasks = {}

\* AdminProducts has just mounted: its effect called fetchProducts
ProductsMounted ==
    /\ productsPage = [products |-> <<>>, selected |-> <<>>, editing |-> NoEdit,
                       saving |-> FALSE, loading |-> TRUE]
    /\ productTasks = {[op |-> "fetch"]}

FormsIdle == forms = <<>>

WeightIdle ==
    /\ weightIn = Undef
    /\ weightOut = Undef

-----------------------------------------------------------------------------
(* AddProduct.tsx: slugify and checkSlugExists *)

\* one-character strings that stand for U+00E9 and U+0301
EAcute == "U+00E9"
CombiningAcute == "U+0301"
CombiningMarks == {CombiningAcute}

RECURSIVE Flatten(_)
Flatten(ss) == IF ss = <<>> THEN <<>> ELSE Head(ss) \o Flatten(Tail(ss))

\* s.normalize("NFD")
NormalizeNFD(s) ==
    Flatten([i \in 1..Len(s) |->
                IF s[i] = EAcute THEN <<"e", CombiningAcute>> ELSE <<s[i]>>])

LowerChars == {Lower[i] : i \in 1..26}

\* s.replace(/\s+/g, "-")
RECURSIVE DashSpaces(_)
DashSpaces(s) ==
    IF s = <<>> THEN <<>>
    ELSE IF Head(s) \in Whitespace
         THEN <<"-">> \o DashSpaces(Drop1(s, Len(TakeWhile(s, Whitespace))))
         ELSE <<Head(s)>> \o DashSpaces(Tail(s))

\* s.replace(/-+/g, "-")
RECURSIVE SqueezeDashes(_)
SqueezeDashes(s) ==
    IF s = <<>> THEN <<>>
    ELSE IF Head(s) = "-"
         THEN <<"-">> \o SqueezeDashes(Drop1(s, Len(TakeWhile(s, {"-"}))))
         ELSE <<Head(s)>> \o SqueezeDashes(Tail(s))

\* s.replace(/^-+|-+$/g, "")
RECURSIVE TrimDashes(_)
TrimDashes(s) ==
    IF s # <<>> /\ Head(s) = "-" THEN TrimDashes(Tail(s))
    ELSE IF s # <<>> /\ s[Len(s)] = "-" THEN TrimDashes(SubSeq(s, 1, Len(s) - 1))
    ELSE s

\* slugify with the dashes at the ends taken off before the white space is
\* turned into dashes
slugifyTrimmingFirst(s) ==
    LET lowered == ToLowerCase(Trim(s))
        bare == SelectSeq(NormalizeNFD(lowered), LAMBDA c : c \notin CombiningMarks)
        kept == SelectSeq(bare, LAMBDA c :
                    c \in LowerChars \cup DigitChars \cup Whitespace \cup {"-"})
    IN SqueezeDashes(DashSpaces(TrimDashes(kept)))

slugify(s) ==
    LET lowered == ToLowerCase(Trim(s))
        bare == SelectSeq(NormalizeNFD(lowered), LAMBDA c : c \notin CombiningMarks)
        kept == SelectSeq(bare, LAMBDA c :
                    c \in LowerChars \cup DigitChars \cup Whitespace \cup {"-"})
    IN TrimDashes(SqueezeDashes(DashSpaces(kept)))

\* the characters of \w
WordChars == LowerChars \cup {Upper[i] : i \in 1..26} \cup DigitChars \cup {"_"}

\* slugify of the admin products page, behind the Auto button of the editor
slugifyOfProducts(s) ==
    LET lowered == ToLowerCase(Trim(s))
        dashed == DashSpaces(lowered)
        kept == SelectSeq(dashed, LAMBDA c : c \in WordChars \cup {"-"})
    IN TrimDashes(SqueezeDashes(kept))

\* the slugs the products collection holds
StoredSlugs == {dbProducts[id].slug : id \in DOMAIN dbProducts}

\* what the getDocs of checkSlugExists did: it answered, or it threw
CheckOutcomes == {"answered", "threw"}

checkSlugExistsFailingOpen(slug, outcome) ==
    IF slug = <<>> THEN FALSE
    ELSE IF outcome = "threw" THEN FALSE
    ELSE Str(slug) \in StoredSlugs

\* checkSlugExists(slug) when its query had the given outcome
checkSlugExists(slug, outcome) ==
    IF slug = <<>> THEN FALSE
    ELSE IF outcome = "threw" THEN TRUE
    ELSE Str(slug) \in StoredSlugs

-----------------------------------------------------------------------------
(* AddProduct.tsx: the form *)

NoCheck == [by |-> "none"]

\* the record of a checkSlugExists call that returned in this step
Checked(by, slug, outcome, exists) ==
    [by |-> by, failed |-> slug # <<>> /\ outcome = "threw", exists |-> exists]

TimerOff == [on |-> FALSE, current |-> 0, slug |-> <<>>]

NoSubmit ==
    [phase |-> "none", payload |-> [title |-> <<>>, slug |-> Str(<<>>), price |-> N(0)]]

\* the AddProduct component after its first render and effects
NewForm ==
    [title |-> <<>>, slug |-> <<>>, price |-> Str(<<>>), busy |-> FALSE,
     slugStatus |-> "idle",
     counter |-> 0,          \* slugCheckCounter.current
     timer |-> TimerOff,     \* the debounce timeout, while it is pending
     checks |-> {},          \* debounce callbacks awaiting checkSlugExists
     suggests |-> <<>>,      \* handleSuggestSlug calls awaiting checkSlugExists
     submit |-> NoSubmit,    \* the submit call awaiting its check or its addDoc
     lastCheck |-> NoCheck]  \* the checkSlugExists call that has just returned

\* the form once a title and a price have been typed
TitledForm == [NewForm EXCEPT !.title = <<"A", "b">>, !.price = Num(5)]

FormsOnly ==
    UNCHANGED <<dbProducts, dbOrders, nextOrderId, nextProductId, modal, closeTimers,
                submits, notified, ordersPage, orderTasks, productsPage, productTasks,
                weightIn, weightOut, shop>>

FormsAndProducts ==
    UNCHANGED <<dbOrders, nextOrderId, modal, closeTimers, submits, notified, ordersPage,
                orderTasks, productsPage, productTasks, weightIn, weightOut, shop>>

\* whether the effect on [slug] would start a debounce for the new value
StartsDebounce(f, newSlug) == newSlug # f.slug /\ newSlug # <<>>

\* the form after a render that set the slug and the status: when the slug
\* changed, the cleanup of the effect on [slug] and the effect itself run
Rendered(f, newSlug, status) ==
    IF newSlug = f.slug THEN [f EXCEPT !.slugStatus = status]
    ELSE IF newSlug = <<>>
    THEN [f EXCEPT !.slug = <<>>, !.slugStatus = "idle", !.timer = TimerOff]
    ELSE [f EXCEPT !.slug = newSlug, !.slugStatus = "checking",
                   !.counter = f.counter + 1,
                   !.timer = [on |-> TRUE, current |-> f.counter + 1, slug |-> newSlug]]

\* forms with session s replaced by g, whose step saw the check c return
Session(s, g, c) == [forms EXCEPT ![s] = [g EXCEPT !.lastCheck = c]]

SetTitle(s, v) ==
    /\ forms[s].title # v
    /\ forms' = Session(s, [forms[s] EXCEPT !.title = v], NoCheck)
    /\ FormsOnly

SetPrice(s, v) ==
    /\ forms[s].price # v
    /\ forms' = Session(s, [forms[s] EXCEPT !.price = IF Truthy(v) THEN ToNumber(v) ELSE Str(<<>>)],
                        NoCheck)
    /\ FormsOnly

\* the slug input's onChange
TypeSlug(s, v) ==
    /\ forms[s].slug # v
    /\ StartsDebounce(forms[s], v) => forms[s].counter < MaxEdits
    /\ forms' = Session(s, Rendered(forms[s], v, forms[s].slugStatus), NoCheck)
    /\ FormsOnly

\* the Reset button
ResetForm(s) ==
    /\ forms' = Session(s, [Rendered(forms[s], <<>>, "idle") EXCEPT
                               !.title = <<>>, !.price = Str(<<>>)], NoCheck)
    /\ FormsOnly

\* the debounce timeout fires: its callback calls checkSlugExists
DebounceFire(s) ==
    /\ forms[s].timer.on
    /\ CanStart
    /\ forms' = Session(s, [forms[s] EXCEPT
            !.timer = TimerOff,
            !.checks = @ \cup {[current |-> forms[s].timer.current,
                                slug |-> forms[s].timer.slug]}], NoCheck)
    /\ FormsOnly

\* checkSlugExists returns to the debounce callback
DebounceSettle(s, c, outcome) ==
    /\ c \in forms[s].checks
    /\ LET exists == checkSlugExists(c.slug, outcome)
           f == [forms[s] EXCEPT !.checks = @ \ {c}]
       IN forms' = Session(s,
             IF c.current # f.counter THEN f
             ELSE [f EXCEPT !.slugStatus = IF exists THEN "taken" ELSE "available"],
             Checked("debounce", c.slug, outcome, exists))
    /\ FormsOnly

\* n.toString(10)
RECURSIVE DecimalDigits(_)
DecimalDigits(n) ==
    IF n < 10 THEN <<Digits[n + 1]>>
    ELSE DecimalDigits(n \div 10) \o <<Digits[(n % 10) + 1]>>

Base36Digits == Digits \o Lower

\* n.toString(36)
RECURSIVE ToBase36(_)
ToBase36(n) ==
    IF n < 36 THEN <<Base36Digits[n + 1]>>
    ELSE ToBase36(n \div 36) \o <<Base36Digits[(n % 36) + 1]>>

\* s.slice(-n)
SliceLast(s, n) == IF Len(s) <= n THEN s ELSE SubSeq(s, Len(s) - n + 1, Len(s))

\* Date.now() is hi * 36^6 + lo with lo < 36^6: its base-36 numeral is
\* that of hi followed by the six digits of lo
ClockSamples == {[hi |-> 790, lo |-> 47], [hi |-> 790, lo |-> 2000000000]}

PadSix(ds) == [i \in 1..(6 - Len(ds)) |-> "0"] \o ds

\* Date.now().toString(36).slice(-6)
TimeSuffix(now) == SliceLast(ToBase36(now.hi) \o PadSix(ToBase36(now.lo)), 6)

NextCandidateSkipping(base, attempt, now) ==
    base \o <<"-">> \o DecimalDigits(attempt + 1)

\* the candidate handleSuggestSlug checks after `attempt` candidates existed

NextCandidate(base, attempt, now) ==
    IF attempt > 12 THEN base \o <<"-">> \o TimeSuffix(now)
    ELSE base \o <<"-">> \o DecimalDigits(attempt)

\* handleSuggestSlug up to its first await; the button needs a title and
\* no submission under way
handleSuggestSlug(s) ==
    /\ forms[s].title # <<>>
    /\ ~forms[s].busy
    /\ LET base == slugify(forms[s].title)
           g == [base |-> base, candidate |-> base, attempt |-> 0]
       IN IF base = <<>>
          THEN forms' = Session(s, forms[s], NoCheck)
          ELSE /\ CanStart
               /\ Len(forms[s].suggests) < MaxSuggests
               /\ forms' = Session(s, [forms[s] EXCEPT !.slugStatus = "checking",
                                                       !.suggests = Append(@, g)], NoCheck)
    /\ FormsOnly

\* checkSlugExists returns to the loop of handleSuggestSlug
SuggestSettle(s, i, outcome, now) ==
    /\ i \in 1..Len(forms[s].suggests)
    /\ LET g == forms[s].suggests[i]
           exists == checkSlugExists(g.candidate, outcome)
           c == Checked("suggest", g.candidate, outcome, exists)
       IN IF ~exists
          THEN /\ StartsDebounce(forms[s], g.candidate) => forms[s].counter < MaxEdits
               /\ forms' = Session(s,
                     Rendered([forms[s] EXCEPT !.suggests = RemoveAt(@, i)],
                              g.candidate, "available"),
                     c)
          ELSE /\ g.attempt + 1 < MaxSuggestCalls
               /\ forms' = Session(s,
                     [forms[s] EXCEPT !.suggests[i] =
                        [g EXCEPT !.attempt = g.attempt + 1,
                                  !.candidate = NextCandidate(g.base, g.attempt + 1, now)]],
                     c)
    /\ FormsOnly

\* the products submit calls are about to create
Creating == Cardinality({s \in DOMAIN forms : forms[s].submit.phase # "none"})

\* submit up to its first await; the button is disabled while busy
submit(s) ==
    /\ ~forms[s].busy
    /\ LET f == forms[s] IN
       IF Trim(f.title) = <<>> THEN forms' = Session(s, f, NoCheck)
       ELSE IF f.price.t = "str" \/ IsNaN(ToNumber(f.price))
       THEN forms' = Session(s, f, NoCheck)
       ELSE IF Trim(f.slug) = <<>>
       THEN forms' = Session(s, [f EXCEPT !.slugStatus = "taken"], NoCheck)
       ELSE IF f.slugStatus \in {"taken", "checking"}
       THEN forms' = Session(s, f, NoCheck)
       ELSE /\ CanStart
            /\ nextProductId + Creating <= MaxProducts
            /\ forms' = Session(s, [f EXCEPT
                  !.busy = TRUE,
                  !.submit = [phase |-> "check",
                              payload |-> [title |-> Trim(f.title),
                                           slug |-> Str(Trim(f.slug)),
                                           price |-> ToNumber(f.price)]]], NoCheck)
    /\ FormsOnly

\* checkSlugExists returns to submit, which stops or calls addDoc
SubmitCheckSettle(s, outcome) ==
    /\ forms[s].submit.phase = "check"
    /\ LET slug == forms[s].submit.payload.slug.s
           exists == checkSlugExists(slug, outcome)
       IN forms' = Session(s,
             IF exists
             THEN [forms[s] EXCEPT !.slugStatus = "taken", !.busy = FALSE,
                                   !.submit = NoSubmit]
             ELSE [forms[s] EXCEPT !.submit.phase = "create"],
             Checked("submit", slug, outcome, exists))
    /\ FormsOnly

AddDocSettleUnlessTaken(s, ok) ==
    /\ forms[s].submit.phase = "create"
    /\ ok => forms[s].submit.payload.slug \notin StoredSlugs
    /\ IF ok
       THEN /\ dbProducts' = Put(dbProducts, nextProductId, forms[s].submit.payload)
            /\ nextProductId' = nextProductId + 1
            /\ forms' = Session(s,
                  [Rendered(forms[s], <<>>, "idle") EXCEPT
                      !.title = <<>>, !.price = Str(<<>>), !.busy = FALSE,
                      !.submit = NoSubmit], NoCheck)
       ELSE /\ forms' = Session(s, [forms[s] EXCEPT !.busy = FALSE, !.submit = NoSubmit],
                                NoCheck)
            /\ UNCHANGED <<dbProducts, nextProductId>>
    /\ FormsAndProducts

\* the addDoc of submit settles; then the form is cleared, or the catch
\* block runs, and the finally block
AddDocSettle(s, ok) ==
    /\ forms[s].submit.phase = "create"
    /\ IF ok
       THEN /\ dbProducts' = Put(dbProducts, nextProductId, forms[s].submit.payload)
            /\ nextProductId' = nextProductId + 1
            /\ forms' = Session(s,
                  [Rendered(forms[s], <<>>, "idle") EXCEPT
                      !.title = <<>>, !.price = Str(<<>>), !.busy = FALSE,
                      !.submit = NoSubmit], NoCheck)
       ELSE /\ forms' = Session(s, [forms[s] EXCEPT !.busy = FALSE, !.submit = NoSubmit],
                                NoCheck)
            /\ UNCHANGED <<dbProducts, nextProductId>>
    /\ FormsAndProducts

-----------------------------------------------------------------------------
(* PricingSpec: the order modal alone, on the products and orders of
   the store *)

PricingInit ==
    /\ StoreInit
    /\ ModalIdle
    /\ ShopIdle
    /\ OrdersIdle
    /\ ProductsIdle
    /\ FormsIdle
    /\ WeightIdle

ModalNext ==
    \/ \E p \in DOMAIN dbProducts : OpenOrder(p)
    \/ CloseModal
    \/ DecQuantity
    \/ IncQuantity
    \/ \E v \in 1..MaxQty : TypeQuantity(v)
    \/ \E u \in UnitSizes : SetUnitSize(u)
    \/ \E d \in DeliveryTypes : SetDeliveryType(d)
    \/ \E n \in NameInputs, ph \in PhoneInputs, a \in AddressInputs : HandleSubmit(n, ph, a)
    \/ \E c \in submits, ok \in BOOLEAN : AddOrderSettle(c, ok)
    \/ \E i \in closeTimers : AutoClose(i)
    \/ ThanksOk

PricingSpec == PricingInit /\ [][ModalNext]_vars

\* the four amounts follow from price, unit size, quantity and delivery type,
\* in thousandths: half the price for "500g", 80 inside and 120 outside
PricedRight(price, unitSize, quantity, deliveryType, unitPrice, itemsTotal, fee, grand) ==
    /\ IsNum(price) /\ IsNum(unitPrice) /\ IsNum(itemsTotal) /\ IsNum(fee) /\ IsNum(grand)
    /\ IF unitSize = "500g" THEN 2 * unitPrice.v = price.v ELSE unitPrice.v = price.v
    /\ itemsTotal.v = unitPrice.v * quantity
    /\ fee.v = IF deliveryType = "inside" THEN 80000 ELSE 120000
    /\ grand.v = itemsTotal.v + fee.v

DocPricedRight(d) ==
    /\ IsNum(d.quantity)
    /\ d.quantity.v % 1000 = 0
    /\ PricedRight(d.pricePerKg, d.unitSize, d.quantity.v \div 1000, d.deliveryType,
                   d.unitPrice, d.itemsTotal, d.deliveryFee, d.grandTotal)

\* C1: the modal's amounts, the document it submits and every stored order
\* satisfy unitPrice = price x (0.5 for the half unit, 1 for the whole),
\* itemsTotal = unitPrice x quantity, deliveryFee = 80 inside / 120 outside,
\* grandTotal = itemsTotal + deliveryFee; 500/half/3/inside gives
\* 250, 750, 80, 830 and 200/whole/1/outside gives 320
C1_Pricing ==
    /\ modal.open =>
         /\ PricePerKg = modal.product.price
         /\ PricedRight(PricePerKg, modal.unitSize, modal.quantity, modal.deliveryType,
                        UnitPrice, ItemsTotal, DeliveryFee, GrandTotal)
    /\ \A c \in submits : DocPricedRight(c.doc)
    /\ \A id \in DOMAIN dbOrders :
         /\ DocPricedRight(dbOrders[id])
         /\ dbOrders[id].productId \in DOMAIN dbProducts
         /\ dbOrders[id].pricePerKg = dbProducts[dbOrders[id].productId].price
    /\ unitPriceOf(Num(500), "500g") = Num(250)
    /\ itemsTotalOf(Num(250), 3) = Num(750)
    /\ grandTotalOf(Num(750), deliveryFeeOf("inside")) = Num(830)
    /\ grandTotalOf(itemsTotalOf(unitPriceOf(Num(200), "1kg"), 1),
                    deliveryFeeOf("outside")) = Num(320)

\* an order for three half units of the 500 product, delivered inside, is
\* stored with 250, 750, 80 and 830
C1_Witness ==
    \E id \in DOMAIN dbOrders :
        /\ id >= MaxOrders
        /\ dbOrders[id].pricePerKg = Num(500)
        /\ dbOrders[id].unitSize = "500g"
        /\ dbOrders[id].quantity = Num(3)
        /\ dbOrders[id].deliveryType = "inside"
        /\ dbOrders[id].unitPrice = Num(250)
        /\ dbOrders[id].itemsTotal = Num(750)
        /\ dbOrders[id].deliveryFee = Num(80)
        /\ dbOrders[id].grandTotal = Num(830)

-----------------------------------------------------------------------------
(* OrderSpec: orders placed through the modal and handled by the admin
   Orders component *)

OrderInit ==
    /\ StoreInit
    /\ ModalIdle
    /\ ShopIdle
    /\ OrdersMounted
    /\ ProductsIdle
    /\ FormsIdle
    /\ WeightIdle

\* a customer opens the modal and submits it as it stands
PlaceOrderNext ==
    \/ \E p \in DOMAIN dbProducts : OpenOrder(p)
    \/ CloseModal
    \/ \E n \in NameInputs, ph \in PhoneInputs, a \in AddressInputs : HandleSubmit(n, ph, a)
    \/ \E c \in submits, ok \in BOOLEAN : AddOrderSettle(c, ok)

\* the handlers of the Orders component that write to the orders collection,
\* with the selection they need
OrderWritesNext ==
    \/ \E ok \in BOOLEAN : FetchOrdersSettle(ok)
    \/ \E b \in BOOLEAN : SelectAll(b)
    \/ \E id \in RowIds : confirmOrder(id)
    \/ \E id \in 1..MaxOrders, ok \in BOOLEAN : confirmOrderSettle(id, ok)
    \/ \E id \in RowIds : deleteOrder(id)
    \/ \E id \in 1..MaxOrders, ok \in BOOLEAN : deleteOrderSettle(id, ok)
    \/ bulkConfirm
    \/ bulkDelete
    \/ \E t \in orderTasks, ok \in BOOLEAN : BulkStep(t, ok)
    \/ \E t \in orderTasks, ok \in BOOLEAN : BulkFetchSettle(t, ok)

OrderNext == PlaceOrderNext \/ OrderWritesNext

OrderSpec == OrderInit /\ [][OrderNext]_vars

\* the confirmOrder or bulkConfirm call that made a write in this step
ConfirmSettled ==
    \E t \in orderTasks \ orderTasks' : t.op \in {"confirm", "bulkConfirm"}

\* C8: an order enters the collection with status 'pending'; the status of
\* a stored order changes only to 'confirmed' and only in a step of
\* confirmOrder or bulkConfirm, so a confirmed order is never pending
\* again; otherwise an order only disappears
C8_StatusLifecycle ==
    [][\A id \in DOMAIN dbOrders' :
          IF id \in DOMAIN dbOrders
          THEN dbOrders'[id].status # dbOrders[id].status =>
                 /\ dbOrders[id].status = "pending"
                 /\ dbOrders'[id].status = "confirmed"
                 /\ ConfirmSettled
          ELSE dbOrders'[id].status = "pending"]_vars

\* an order placed through the modal has been confirmed, and the order that
\* was there before it has been deleted
C8_Witness ==
    /\ \E id \in DOMAIN dbOrders : id >= MaxOrders /\ dbOrders[id].status = "confirmed"
    /\ \E id \in 1..(MaxOrders - 1) : id \notin DOMAIN dbOrders

-----------------------------------------------------------------------------
(* SnapshotSpec: orders are placed and confirmed while the admin edits and
   deletes the products they were placed for *)

\* AdminProducts after the fetchProducts of its mount has settled
ProductsLoaded ==
    /\ productsPage = [products |-> FetchedProducts, selected |-> <<>>, editing |-> NoEdit,
                       saving |-> FALSE, loading |-> FALSE]
    /\ productTasks = {}

SnapshotInit ==
    /\ StoreInit
    /\ ModalIdle
    /\ ShopIdle
    /\ OrdersMounted
    /\ ProductsLoaded
    /\ FormsIdle
    /\ WeightIdle

ConfirmNext ==
    \/ \E ok \in BOOLEAN : FetchOrdersSettle(ok)
    \/ \E id \in RowIds : confirmOrder(id)
    \/ \E id \in 1..MaxOrders, ok \in BOOLEAN : confirmOrderSettle(id, ok)

ProductChangeNext ==
    \/ \E id \in ProductRowIds : openEdit(id)
    \/ \E v \in EditPriceInputs : EditPrice(v)
    \/ saveEdit
    \/ \E t \in productTasks, ok \in BOOLEAN : saveEditSettle(t, ok)
    \/ \E id \in ProductRowIds : deleteProduct(id)
    \/ \E id \in DOMAIN ProductsAtStart, ok \in BOOLEAN : deleteProductSettle(id, ok)

SnapshotNext == PlaceOrderNext \/ ConfirmNext \/ ProductChangeNext

SnapshotSpec == SnapshotInit /\ [][SnapshotNext]_vars

\* the document with its status blanked
SansStatus(d) == [d EXCEPT !.status = ""]

\* C9: whatever a stored order captured when it was placed (productTitle,
\* unitPrice, quantity, itemsTotal, deliveryFee, grandTotal and every other
\* field but status) is the same after every step; a step that writes to
\* the products collection leaves the orders collection as it was
C9_Snapshot ==
    [][/\ \A id \in DOMAIN dbOrders \cap DOMAIN dbOrders' :
            SansStatus(dbOrders'[id]) = SansStatus(dbOrders[id])
       /\ dbProducts' # dbProducts => dbOrders' = dbOrders]_vars

\* a confirmed order keeps the price it was placed at although its product
\* now costs something else, and another order's product is gone
C9_Witness ==
    /\ \E id \in DOMAIN dbOrders :
          /\ dbOrders[id].status = "confirmed"
          /\ dbOrders[id].productId \in DOMAIN dbProducts
          /\ dbProducts[dbOrders[id].productId].price # dbOrders[id].pricePerKg
          /\ DocPricedRight(dbOrders[id])
    /\ \E id \in DOMAIN dbOrders : dbOrders[id].productId \notin DOMAIN dbProducts

-----------------------------------------------------------------------------
(* WeightSpec: computeOrderWeightKg applied to the order records the
   collection may hold, legacy ones included *)

QuantityInputs == {Undef, N(0), Num(4), Str(<<"2">>), Str(<<"x">>)}
UnitWeightKgInputs == {Undef, Null, Num(2), Str(<<"k">>)}
UnitWeightInputs ==
    {Undef, Null, N(0), N(-5000), Num(5), N(9990), Num(10), Num(500), Str(<<>>)}
WeightLabelInputs ==
    {Undef, Str(<<>>), Str(<<"a", "b", "c">>), Str(<<"2", "5", "0", "g">>),
     Str(<<"1", ",", "5", " ", "K", "g">>), Str(<<"3">>), Str(<<"7", "5", "0">>),
     Num(250)}

WeightInputs ==
    [quantity : QuantityInputs, unitWeightKg : UnitWeightKgInputs,
     unitWeight : UnitWeightInputs, weightLabel : WeightLabelInputs]

WeightInit ==
    /\ StoreInit
    /\ ModalIdle
    /\ ShopIdle
    /\ OrdersIdle
    /\ ProductsIdle
    /\ FormsIdle
    /\ weightIn \in WeightInputs
    /\ weightOut = Undef

\* the call computeOrderWeightKg(order)
ComputeWeight ==
    /\ weightOut = Undef
    /\ "weightLabel" \in DOMAIN weightIn
    /\ weightOut' = computeOrderWeightKg(weightIn)
    /\ UNCHANGED <<dbProducts, dbOrders, nextOrderId, nextProductId, modal, closeTimers,
                   submits, notified, ordersPage, orderTasks, productsPage, productTasks,
                   forms, weightIn, shop>>

WeightNext == ComputeWeight

WeightSpec == WeightInit /\ [][WeightNext]_vars

\* x is present and numeric: x != null && !Number.isNaN(Number(x))
PresentNumeric(x) ==
    \/ x.t = "num"
    \/ x.t = "str" /\ x.s = <<>>

\* the quantity the inputs stand for, in thousandths (0 when absent)
QuantityOf(order) ==
    CASE order.quantity = Num(4) -> 4000
      [] order.quantity = Str(<<"2">>) -> 2000
      [] OTHER -> 0

\* the kilograms per item a label of WeightLabelInputs states, in
\* thousandths; 0 when it states none
LabelKg(label) ==
    CASE label = Str(<<"2", "5", "0", "g">>) -> 250
      [] label = Str(<<"1", ",", "5", " ", "K", "g">>) -> 1500
      [] label = Str(<<"3">>) -> 3000
      [] label = Str(<<"7", "5", "0">>) -> 750
      [] OTHER -> 0

\* the kilograms per item a numeric unitWeight stands for: itself below 10,
\* a thousandth of itself from 10 on
UnitWeightKgOf(x) ==
    LET v == IF x.t = "num" THEN x.v ELSE 0
    IN IF v < 10000 THEN v ELSE v \div 1000

Computed == weightOut # Undef
CountedQuantity == QuantityOf(weightIn) > 0

FromUnitWeight ==
    /\ Computed
    /\ CountedQuantity
    /\ ~PresentNumeric(weightIn.unitWeightKg)
    /\ weightIn.unitWeight.t = "num"
    /\ weightIn.unitWeight.v > 0

\* C11: when the weight comes from unitWeight, a value below 10 counts as
\* kilograms (unitWeight x quantity) and a value of 10 or more as grams
\* (unitWeight / 1000 x quantity)
C11_ThresholdTen ==
    FromUnitWeight =>
      LET uw == weightIn.unitWeight.v
          q == QuantityOf(weightIn) \div 1000
      IN /\ uw < 10 * 1000 => weightOut = N(uw * q)
         /\ uw >= 10 * 1000 => weightOut = N((uw * q) \div 1000)

\* four items of unitWeight exactly 10 weigh 0.04 kg: 10 counted as grams
C11_Witness ==
    /\ weightIn.quantity = Num(4)
    /\ weightIn.unitWeightKg = Undef
    /\ weightIn.unitWeight = Num(10)
    /\ weightOut = N(40)

\* the number a label of WeightLabelInputs is written with, in thousandths,
\* and its unit suffix; 0 when it is written with none
LabelNumber(label) ==
    CASE label = Str(<<"2", "5", "0", "g">>) -> 250000
      [] label = Str(<<"1", ",", "5", " ", "K", "g">>) -> 1500
      [] label = Str(<<"3">>) -> 3000
      [] label = Str(<<"7", "5", "0">>) -> 750000
      [] OTHER -> 0

LabelUnit(label) ==
    CASE label = Str(<<"2", "5", "0", "g">>) -> "g"
      [] label = Str(<<"1", ",", "5", " ", "K", "g">>) -> "kg"
      [] OTHER -> ""

\* the weight comes from the weightLabel field: a quantity above 0, no
\* numeric unitWeightKg, no numeric unitWeight above 0, a label with a number
FromLabel ==
    /\ Computed
    /\ CountedQuantity
    /\ ~PresentNumeric(weightIn.unitWeightKg)
    /\ ~(PresentNumeric(weightIn.unitWeight) /\ UnitWeightKgOf(weightIn.unitWeight) > 0)
    /\ LabelNumber(weightIn.weightLabel) > 0

\* C29: when the weight comes from weightLabel, the suffix kg gives
\* number x quantity, the suffix g gives number / 1000 x quantity, and a
\* label with no suffix counts as kilograms below 10 and as grams from 10 on
C29_LabelUnits ==
    FromLabel =>
      LET n == LabelNumber(weightIn.weightLabel)
          unit == LabelUnit(weightIn.weightLabel)
          q == QuantityOf(weightIn) \div 1000
          asKg == N(n * q)
          asGrams == N((n \div 1000) * q)
      IN /\ unit = "kg" => weightOut = asKg
         /\ unit = "g" => weightOut = asGrams
         /\ (unit = "" /\ n < 10 * 1000) => weightOut = asKg
         /\ (unit = "" /\ n >= 10 * 1000) => weightOut = asGrams

\* the record {quantity: 4, weightLabel: "250g"} weighs 1 kg
C29_Witness ==
    /\ FromLabel
    /\ weightIn = [quantity |-> Num(4), unitWeightKg |-> Undef, unitWeight |-> Undef,
                   weightLabel |-> Str(<<"2", "5", "0", "g">>)]
    /\ weightOut = Num(1)

-----------------------------------------------------------------------------
(* DerivationSpec: the three derivation functions, each applied once to a
   stored value *)

TotalInputs ==
    [quantity : {Undef, Num(2), Str(<<"x">>)},
     unitPrice : {Undef, N(0), Num(30), Str(<<"a">>)},
     price : {Undef, Num(50)},
     deliveryFee : {Undef, Num(80), Str(<<"f">>)},
     grandTotal : {Undef, Null, Num(200), Str(<<>>), Str(<<"n">>)},
     itemsTotal : {Undef, Num(100), Str(<<"n">>)}]

PriceInputs ==
    [val : {Undef, Null, NaN, Num(500), N(0 - 1500), Str(<<>>), Str(<<"a", "b">>),
            Str(<<"U+09EB", "U+09E6">>), Str(<<"T", "k", " ", "7", "5", ".", "5">>),
            Str(<<"1", ",", "2", "0", "0">>), Str(<<"-">>), Str(<<"1", "2", "-", "3">>)}]

DerivationInit ==
    /\ StoreInit
    /\ ModalIdle
    /\ ShopIdle
    /\ OrdersIdle
    /\ ProductsIdle
    /\ FormsIdle
    /\ weightIn \in WeightInputs \cup TotalInputs \cup PriceInputs
    /\ weightOut = Undef

\* the call computeOrderTotal(order)
ComputeTotal ==
    /\ weightOut = Undef
    /\ "grandTotal" \in DOMAIN weightIn
    /\ weightOut' = computeOrderTotal(weightIn)
    /\ UNCHANGED <<dbProducts, dbOrders, nextOrderId, nextProductId, modal, closeTimers,
                   submits, notified, ordersPage, orderTasks, productsPage, productTasks,
                   forms, weightIn, shop>>

\* the call parsePriceToNumber(val)
ParsePrice ==
    /\ weightOut = Undef
    /\ "val" \in DOMAIN weightIn
    /\ weightOut' = parsePriceToNumber(weightIn.val)
    /\ UNCHANGED <<dbProducts, dbOrders, nextOrderId, nextProductId, modal, closeTimers,
                   submits, notified, ordersPage, orderTasks, productsPage, productTasks,
                   forms, weightIn, shop>>

DerivationNext ==
    \/ ComputeWeight
    \/ ComputeTotal
    \/ ParsePrice

DerivationSpec == DerivationInit /\ [][DerivationNext]_vars

\* computeOrderTotal has returned
TotalComputed == Computed /\ "grandTotal" \in DOMAIN weightIn

\* the amount a field of TotalInputs states, in thousandths; 0 when absent
Amount(x) == IF x.t = "num" THEN x.v ELSE 0

\* a field holding text that is no number
Garbled(x) == x.t = "str" /\ x.s # <<>>

\* a field Number() turns into a number: a number, or the empty text (0)
Stored(x) == x.t = "num" \/ (x.t = "str" /\ x.s = <<>>)

C13_AlwaysANumber == Computed => weightOut.t = "num"

-----------------------------------------------------------------------------
(* BulkSpec: the bulk operations of the two admin lists, on a store of
   MaxOrders orders *)

OrdersPlaced ==
    [i \in 1..MaxOrders |->
        OrderDoc([id |-> 1, title |-> ProductsAtStart[1].title,
                  price |-> ProductsAtStart[1].price], "500g", 1, "inside")]

\* the Orders component after its first fetchOrders
OrdersLoaded ==
    /\ ordersPage = [orders |-> FetchedOrders, selected |-> <<>>, busy |-> FALSE,
                     deletingId |-> 0, confirmingId |-> 0]
    /\ orderTasks = {}

BulkInit ==
    /\ dbProducts = ProductsAtStart
    /\ nextProductId = Len(ProductsAtStart) + 1
    /\ dbOrders = OrdersPlaced
    /\ nextOrderId = MaxOrders + 1
    /\ ModalIdle
    /\ ShopIdle
    /\ OrdersLoaded
    /\ ProductsLoaded
    /\ FormsIdle
    /\ WeightIdle

\* the admin ticks rows (none is unticked by hand) and runs batches
BulkNext ==
    \/ \E id \in RowIds : ~IsSelected(ordersPage.selected, id) /\ toggleSelect(id)
    \/ bulkConfirm
    \/ bulkDelete
    \/ \E t \in orderTasks, ok \in BOOLEAN : BulkStep(t, ok)
    \/ \E t \in orderTasks, ok \in BOOLEAN : BulkFetchSettle(t, ok)
    \/ \E id \in ProductRowIds :
          ~IsSelected(productsPage.selected, id) /\ toggleSelectProduct(id)
    \/ bulkDeleteProducts
    \/ \E t \in productTasks, ok \in BOOLEAN : ProductBulkStep(t, ok)
    \/ \E t \in productTasks, ok \in BOOLEAN : ProductBulkFetchSettle(t, ok)

BulkSpec == BulkInit /\ [][BulkNext]_vars

\* every document of f but id is in g as it was
SameBut(f, g, id) ==
    \A j \in DOMAIN f \ {id} : j \in DOMAIN g /\ g[j] = f[j]

\* the step in which the call in flight of order batch t settles
OrderCallSettles(t) ==
    LET id == t.ids[t.i]
    IN \/ /\ [t EXCEPT !.i = t.i + 1] \in orderTasks'
          /\ IF t.op = "bulkDelete"
             THEN id \notin DOMAIN dbOrders'
             ELSE id \in DOMAIN dbOrders' /\ dbOrders'[id].status = "confirmed"
          /\ SameBut(dbOrders, dbOrders', id)
       \/ /\ \A u \in orderTasks' : ~IsBulk(u)
          /\ dbOrders' = dbOrders
          /\ ~ordersPage'.busy

\* the step in which the call in flight of product batch t settles
ProductCallSettles(t) ==
    LET id == t.ids[t.i]
    IN \/ /\ [t EXCEPT !.i = t.i + 1] \in productTasks'
          /\ id \notin DOMAIN dbProducts'
          /\ SameBut(dbProducts, dbProducts', id)
       \/ /\ \A u \in productTasks' : IsProductBulk(u) => u.n # t.n
          /\ dbProducts' = dbProducts

\* C14: a batch has one persistence call in flight, the one for the next id
\* in selection order; when it succeeds that document alone changes and the
\* batch moves to the next id; when it fails the batch ends there with no
\* further call, what was changed stays changed, and the busy marker is
\* cleared once
C14_OneAtATime ==
    [][/\ \A t \in orderTasks :
             (IsBulk(t) /\ t.i <= Len(t.ids) /\ t \notin orderTasks')
             => OrderCallSettles(t)
       /\ \A t \in productTasks :
             (IsProductBulk(t) /\ t.i <= Len(t.ids) /\ t \notin productTasks')
             => ProductCallSettles(t)
       /\ \A t, u \in productTasks' :
             (IsProductBulk(t) /\ IsProductBulk(u) /\ t.n = u.n) => t = u
       /\ Cardinality({t \in orderTasks' : IsBulk(t)}) <= 1]_vars

\* a bulk confirm of orders 2 and 1, selected in that order, has its second
\* call in flight: order 2 is confirmed, order 1 not yet
C14_Witness ==
    /\ \E t \in orderTasks :
          /\ IsBulk(t)
          /\ t.op = "bulkConfirm"
          /\ t.ids = <<2, 1>>
          /\ t.i = 2
    /\ dbOrders[2].status = "confirmed"
    /\ dbOrders[1].status = "pending"

-----------------------------------------------------------------------------
(* AdminSpec: the single-record operations of the two admin lists *)

AdminInit ==
    /\ StoreInit
    /\ ModalIdle
    /\ ShopIdle
    /\ OrdersLoaded
    /\ ProductsLoaded
    /\ FormsIdle
    /\ WeightIdle

AdminNext ==
    \/ \E id \in RowIds : confirmOrder(id)
    \/ \E id \in 1..MaxOrders, ok \in BOOLEAN : confirmOrderSettle(id, ok)
    \/ \E id \in RowIds : deleteOrder(id)
    \/ \E id \in 1..MaxOrders, ok \in BOOLEAN : deleteOrderSettle(id, ok)
    \/ \E id \in ProductRowIds : openEdit(id)
    \/ \E v \in EditTitleInputs : EditTitle(v)
    \/ \E v \in EditPriceInputs : EditPrice(v)
    \/ CancelEdit
    \/ saveEdit
    \/ \E t \in productTasks, ok \in BOOLEAN : saveEditSettle(t, ok)
    \/ \E id \in ProductRowIds : deleteProduct(id)
    \/ \E id \in DOMAIN ProductsAtStart, ok \in BOOLEAN : deleteProductSettle(id, ok)

AdminSpec == AdminInit /\ [][AdminNext]_vars

\* the orders collection holds what order task t asked for
OrderWriteHeld(t, db) ==
    \/ t.op = "confirm" /\ t.id \in DOMAIN db /\ db[t.id].status = "confirmed"
    \/ t.op = "delete" /\ t.id \notin DOMAIN db

\* the products collection holds what product task t asked for
ProductWriteHeld(t, db) ==
    \/ /\ t.op = "save"
       /\ t.id \in DOMAIN db
       /\ \A k \in DOMAIN t.payload : db[t.id][k] = t.payload[k]
    \/ t.op = "delete" /\ t.id \notin DOMAIN db

\* C15: the orders and products lists on screen change only in the step in
\* which a confirmOrder, deleteOrder, deleteProduct or saveEdit call settles
\* with its write held by the store; a call that settles without it leaves
\* the list as it was; and when a call settles its busy marker
\* (confirmingId, deletingId, saving) is cleared
C15_AfterSuccessOnly ==
    [][/\ ordersPage'.orders # ordersPage.orders =>
             \E t \in orderTasks \ orderTasks' : OrderWriteHeld(t, dbOrders')
       /\ productsPage'.products # productsPage.products =>
             \E t \in productTasks \ productTasks' : ProductWriteHeld(t, dbProducts')
       /\ \A t \in orderTasks \ orderTasks' :
             /\ t.op = "confirm" => ordersPage'.confirmingId = 0
             /\ t.op = "delete" => ordersPage'.deletingId = 0
       /\ \A t \in productTasks \ productTasks' :
             t.op = "save" => ~productsPage'.saving]_vars

\* order 1 is confirmed in the store and on screen, product 2 has a saved
\* price of 200 in the store and on screen, nothing is in flight and no
\* marker is set
C15_Witness ==
    /\ orderTasks = {}
    /\ productTasks = {}
    /\ 1 \in DOMAIN dbOrders
    /\ dbOrders[1].status = "confirmed"
    /\ \E i \in 1..Len(ordersPage.orders) :
          ordersPage.orders[i].id = 1 /\ ordersPage.orders[i].doc.status = "confirmed"
    /\ ordersPage.confirmingId = 0
    /\ 2 \in DOMAIN dbProducts
    /\ dbProducts[2].price = Num(200)
    /\ \E i \in 1..Len(productsPage.products) :
          productsPage.products[i].id = 2 /\ productsPage.products[i].doc.price = Num(200)
    /\ ~productsPage.saving

-----------------------------------------------------------------------------
(* CreateSpec: the two forms that create documents, the order modal and
   AddProduct, from their empty state *)

PriceFieldInputs == {Str(<<>>), Str(<<"5">>)}
BlankableTitles == {<<>>, <<" ">>, <<"A", "b">>}
BlankableSlugs == {<<>>, <<" ">>, <<"h">>, <<"n">>}

CreateInit ==
    /\ StoreInit
    /\ ModalIdle
    /\ ShopIdle
    /\ OrdersIdle
    /\ ProductsIdle
    /\ WeightIdle
    /\ forms = <<NewForm>>

CreateFormsNext ==
    \/ \E p \in DOMAIN dbProducts : OpenOrder(p)
    \/ \E n \in NameInputs, ph \in PhoneInputs, a \in AddressInputs : HandleSubmit(n, ph, a)
    \/ \E c \in submits, ok \in BOOLEAN : AddOrderSettle(c, ok)
    \/ \E s \in DOMAIN forms :
          \/ \E v \in BlankableTitles : SetTitle(s, v)
          \/ \E v \in PriceFieldInputs : SetPrice(s, v)
          \/ \E v \in BlankableSlugs : TypeSlug(s, v)
          \/ DebounceFire(s)
          \/ \E c \in forms[s].checks, o \in CheckOutcomes : DebounceSettle(s, c, o)
          \/ submit(s)
          \/ \E o \in CheckOutcomes : SubmitCheckSettle(s, o)
          \/ \E ok \in BOOLEAN : AddDocSettle(s, ok)

CreateSpec == CreateInit /\ [][CreateFormsNext]_vars

\* a string with something in it besides blanks
Filled(str) == \E i \in 1..Len(str) : str[i] \notin Whitespace

\* the digits of a phone number, counted
DigitCount(str) == Cardinality({i \in 1..Len(str) : str[i] \in DigitChars})

\* session s calls the store for its submit in this step
SubmitCalls(s) == forms[s].submit.phase = "none" /\ forms'[s].submit.phase # "none"

\* C16: an order create call is made only with a name and an address that
\* are not blank, a phone of at least 10 digits and a quantity of at least
\* 1; AddProduct calls the store for a submit only with a title and a slug
\* that are not blank, a numeric price and a slug status that is neither
\* 'taken' nor 'checking', and what it then creates is what it validated
C16_ValidBeforeCreate ==
    [][/\ \A c \in submits' :
             /\ Filled(c.customer.name)
             /\ Filled(c.customer.address)
             /\ DigitCount(c.customer.phone) >= 10
             /\ c.doc.quantity.v >= 1000
       /\ \A s \in DOMAIN forms :
             /\ SubmitCalls(s) =>
                   /\ Filled(forms[s].title)
                   /\ Filled(forms[s].slug)
                   /\ forms[s].price.t = "num"
                   /\ forms[s].slugStatus \notin {"taken", "checking"}
             /\ forms'[s].submit.phase # "none" =>
                   /\ Filled(forms'[s].submit.payload.title)
                   /\ Filled(forms'[s].submit.payload.slug.s)
                   /\ forms'[s].submit.payload.price.t = "num"
       /\ \A id \in DOMAIN dbProducts' \ DOMAIN dbProducts :
             \E s \in DOMAIN forms :
                /\ forms[s].submit.phase = "create"
                /\ dbProducts'[id] = forms[s].submit.payload]_vars

\* an order has been created from the modal and a product from the form
C16_Witness ==
    /\ MaxOrders \in DOMAIN dbOrders
    /\ Len(ProductsAtStart) + 1 \in DOMAIN dbProducts
    /\ dbProducts[Len(ProductsAtStart) + 1].slug = Str(<<"n">>)

-----------------------------------------------------------------------------
(* NotifySpec: the order modal and its webhook, on a store with no order yet *)

NotifyInit ==
    /\ dbProducts = ProductsAtStart
    /\ nextProductId = Len(ProductsAtStart) + 1
    /\ dbOrders = <<>>
    /\ nextOrderId = 1
    /\ ModalIdle
    /\ ShopIdle
    /\ OrdersIdle
    /\ ProductsIdle
    /\ FormsIdle
    /\ WeightIdle

NotifyNext ==
    \/ \E p \in DOMAIN dbProducts : OpenOrder(p)
    \/ CloseModal
    \/ \E n \in NameInputs, ph \in PhoneInputs, a \in AddressInputs : HandleSubmit(n, ph, a)
    \/ \E c \in submits, ok \in BOOLEAN : AddOrderSettle(c, ok)
    \/ \E i \in closeTimers : AutoClose(i)
    \/ ThanksOk
    \/ \E k \in 1..Len(notified), ok \in BOOLEAN : NotifySettle(k, ok)

NotifySpec == NotifyInit /\ [][NotifyNext]_vars

\* the orders created in this step
Created == DOMAIN dbOrders' \ DOMAIN dbOrders

\* the posts with their results left out
Posts(n) == [k \in 1..Len(n) |-> n[k].order]

\* C17: a webhook post is made only in the step in which an order is
\* created, one post for that order; a create call that fails posts
\* nothing; no order is ever posted twice and a post is never made again
\* after it settled; and the step in which a post succeeds or fails changes
\* nothing else: the order, the thanks dialog and the reset form stay as
\* the successful create left them
C17_NotifyOnce ==
    [][/\ Posts(notified') # Posts(notified) =>
             \E id \in Created : Posts(notified') = Append(Posts(notified), id)
       /\ Created = {} => Posts(notified') = Posts(notified)
       /\ \A j, k \in 1..Len(notified') :
             notified'[j].order = notified'[k].order => j = k
       /\ \A k \in 1..Len(notified) :
             notified[k].result # "pending" => notified'[k] = notified[k]
       /\ notified' # notified /\ Posts(notified') = Posts(notified) =>
             /\ modal' = modal
             /\ dbOrders' = dbOrders
             /\ submits' = submits
             /\ closeTimers' = closeTimers
       /\ \A c \in submits \ submits' :
             (Created # {} /\ modal.open /\ modal.inst = c.inst) =>
                modal'.showThanks /\ ~modal'.loading /\ modal'.quantity = 1]_vars

\* two orders were created; the post of the first failed, the post of the
\* second was delivered, and the thanks dialog of the second order shows
C17_Witness ==
    /\ DOMAIN dbOrders = {1, 2}
    /\ Len(notified) = 2
    /\ notified[1] = [order |-> 1, result |-> "failed"]
    /\ notified[2] = [order |-> 2, result |-> "delivered"]
    /\ modal.open
    /\ modal.showThanks

-----------------------------------------------------------------------------
(* UnmountSpec: a visitor moves between the public pages and orders from
   the product page *)

FetchOutcomes == {"found", "missing", "threw"}

UnmountInit ==
    /\ StoreInit
    /\ ModalIdle
    /\ ShopIdle
    /\ OrdersIdle
    /\ ProductsIdle
    /\ FormsIdle
    /\ WeightIdle

UnmountNext ==
    \/ MountAllProducts
    \/ UnmountAllProducts
    \/ \E l \in shop.loads, ok \in BOOLEAN : LoadSettle(l.inst, ok)
    \/ MountProductPage
    \/ UnmountProductPage
    \/ \E l \in shop.loads, o \in FetchOutcomes : FetchSettle(l.inst, o)
    \/ \E p \in DOMAIN dbProducts :
          shop.page.mounted /\ shop.page.product /\ OpenOrder(p)
    \/ CloseModal
    \/ \E n \in NameInputs, ph \in PhoneInputs, a \in AddressInputs : HandleSubmit(n, ph, a)
    \/ \E c \in submits, ok \in BOOLEAN : AddOrderSettle(c, ok)
    \/ \E i \in closeTimers : AutoClose(i)
    \/ ThanksOk

UnmountSpec == UnmountInit /\ [][UnmountNext]_vars

\* C18: no state setter is called for a page instance after its unmount,
\* whether its load succeeded or failed, and the timer of an order modal
\* that has been closed changes nothing when it fires
C18_NoLateEffects ==
    [][/\ shop'.late = {}
       /\ \A i \in closeTimers \ closeTimers' :
             ~(modal.open /\ modal.inst = i) => modal' = modal]_vars

-----------------------------------------------------------------------------
(* GateSpec: an admin signs in and out and moves between the admin routes
   and the public pages *)

GateInit ==
    /\ StoreInit
    /\ ModalIdle
    /\ ShopIdle
    /\ OrdersIdle
    /\ ProductsIdle
    /\ FormsIdle
    /\ WeightIdle

GateNext ==
    \/ \E r \in AdminRoutes : VisitAdmin(r)
    \/ LeaveAdmin
    \/ AuthChanged
    \/ login
    \/ \E ok \in BOOLEAN : loginSettle(ok)
    \/ logout
    \/ \E ok \in BOOLEAN : logoutSettle(ok)
    \/ SessionEnds

GateSpec == GateInit /\ [][GateNext]_vars

\* C19: an admin view is mounted only while the user AdminLayout observed
\* is not null; with no user AdminLayout shows the login form alone; and
\* when the observed user becomes null the views go and the route is /admin
C19_AdminGate ==
    [][/\ shop'.admin.view \in AdminViews => shop'.admin.user
       /\ (shop'.admin.mounted /\ ~shop'.admin.user) => shop'.admin.view = "login"
       /\ (shop.admin.user /\ ~shop'.admin.user /\ shop'.admin.mounted) =>
             shop'.admin.route = "/admin"]_vars

\* the admin is signed in and the Orders view is mounted
C19_Witness ==
    /\ shop.admin.user
    /\ shop.admin.auth
    /\ shop.admin.route = "/admin/orders"
    /\ shop.admin.view = "Orders"

-----------------------------------------------------------------------------
(* Spec: slugify applied to a text and then to its own result *)

MaxTextLen == 4
MaxSlugifyCalls == 2

SlugChars == {" ", "-", "A", "1", "_", "!", EAcute}

RECURSIVE TextsOf(_)
TextsOf(n) ==
    IF n = 0 THEN {<<>>}
    ELSE LET shorter == TextsOf(n - 1)
         IN shorter \cup {Append(t, c) : t \in {u \in shorter : Len(u) = n - 1},
                                        c \in SlugChars}

SlugifyInputs == [text : TextsOf(MaxTextLen)]

SlugifyInit ==
    /\ StoreInit
    /\ ModalIdle
    /\ ShopIdle
    /\ OrdersIdle
    /\ ProductsIdle
    /\ FormsIdle
    /\ weightIn \in SlugifyInputs
    /\ weightOut = Undef

\* the slugify of page fn
SlugifyOf(fn, s) == IF fn = "AddProduct" THEN slugify(s) ELSE slugifyOfProducts(s)

\* the call slugify(text) of page fn
Slugify(fn) ==
    /\ weightOut = Undef
    /\ "text" \in DOMAIN weightIn
    /\ weightOut' = [fn |-> fn, slugs |-> <<SlugifyOf(fn, weightIn.text)>>]
    /\ UNCHANGED <<dbProducts, dbOrders, nextOrderId, nextProductId, modal, closeTimers,
                   submits, notified, ordersPage, orderTasks, productsPage, productTasks,
                   forms, weightIn, shop>>

\* the call of slugify on the slug it returned last
SlugifyAgain ==
    /\ weightOut # Undef
    /\ "slugs" \in DOMAIN weightOut
    /\ Len(weightOut.slugs) < MaxSlugifyCalls
    /\ weightOut' = [weightOut EXCEPT !.slugs =
          Append(@, SlugifyOf(weightOut.fn, @[Len(@)]))]
    /\ UNCHANGED <<dbProducts, dbOrders, nextOrderId, nextProductId, modal, closeTimers,
                   submits, notified, ordersPage, orderTasks, productsPage, productTasks,
                   forms, weightIn, shop>>

SlugifyNext ==
    \/ \E fn \in {"AddProduct", "Products"} : Slugify(fn)
    \/ SlugifyAgain

SlugifySpec == SlugifyInit /\ [][SlugifyNext]_vars

\* slugify has been called on its own result
Reslugified == "slugs" \in DOMAIN weightOut /\ Len(weightOut.slugs) > 1

\* C20: slugify is idempotent: slugify applied to a slug it returned gives
\* that slug again, for the slugify of either admin page
C20_Idempotent ==
    Reslugified =>
       \A i \in 2..Len(weightOut.slugs) : weightOut.slugs[i] = weightOut.slugs[1]

\* "A -A" became "a-a", and slugify of "a-a" is "a-a"
C20_Witness ==
    /\ Reslugified
    /\ weightIn.text = <<"A", " ", "-", "A">>
    /\ weightOut.fn = "AddProduct"
    /\ weightOut.slugs = <<(<<"a", "-", "a">>), (<<"a", "-", "a">>)>>

\* slugify has returned
Slugified == "slugs" \in DOMAIN weightOut

\* text s has only lower-case letters, digits and hyphens, no two hyphens in
\* a row and no hyphen at either end
WellShapedSlug(s) ==
    /\ \A i \in 1..Len(s) : s[i] \in LowerChars \cup DigitChars \cup {"-"}
    /\ \A i \in 1..(Len(s) - 1) : ~(s[i] = "-" /\ s[i + 1] = "-")
    /\ s # <<>> => (s[1] # "-" /\ s[Len(s)] # "-")

\* C21: for every text, what slugify returns, on the AddProduct page and
\* behind the Auto button alike, has only lower-case ASCII letters, digits
\* and hyphens, never two hyphens in a row and none at either end
C21_SlugShape == Slugified => WellShapedSlug(weightOut.slugs[1])

\* the admin page whose slugify was not the one called
OtherPage(fn) == IF fn = "AddProduct" THEN "Products" ELSE "AddProduct"

\* C28: the two slug generators of the admin area agree: for every title
\* the slug one of them returns is the slug the other returns
C28_GeneratorsAgree ==
    Slugified => weightOut.slugs[1] = SlugifyOf(OtherPage(weightOut.fn), weightIn.text)

-----------------------------------------------------------------------------
(* CheckoutSpec: orders placed through the modal with any unit size and
   quantity, and read back by the admin Orders component *)

\* the rows exportCsv hands to toCsv
exportCsvRows ==
    [i \in 1..Len(ordersPage.orders) |->
        LET o == ordersPage.orders[i] IN
        Merge(o.doc, [totalWeightKg |-> IF NotNullish(o.weightKg) THEN o.weightKg
                                        ELSE computeOrderWeightKg(o.doc),
                      grandTotal |-> IF NotNullish(o.grandTotal) THEN o.grandTotal
                                     ELSE computeOrderTotal(o.doc)])]

CheckoutInit ==
    /\ StoreInit
    /\ ModalIdle
    /\ ShopIdle
    /\ OrdersMounted
    /\ ProductsIdle
    /\ FormsIdle
    /\ WeightIdle

CheckoutNext ==
    \/ \E p \in DOMAIN dbProducts : OpenOrder(p)
    \/ CloseModal
    \/ DecQuantity
    \/ IncQuantity
    \/ \E u \in UnitSizes : SetUnitSize(u)
    \/ \E n \in NameInputs, ph \in PhoneInputs, a \in AddressInputs : HandleSubmit(n, ph, a)
    \/ \E c \in submits, ok \in BOOLEAN : AddOrderSettle(c, ok)
    \/ \E i \in closeTimers : AutoClose(i)
    \/ ThanksOk
    \/ FetchOrders
    \/ \E ok \in BOOLEAN : FetchOrdersSettle(ok)

CheckoutSpec == CheckoutInit /\ [][CheckoutNext]_vars

\* C23: for every order the checkout modal stored, the weight the Orders
\* view derives and shows for the record, and the one it exports, is the
\* total weight computed at checkout, unit fraction x quantity
C23_SameWeight ==
    \A i \in 1..Len(ordersPage.orders) :
       LET o == ordersPage.orders[i] IN
       /\ o.doc.totalWeightKg = totalWeightKgOf(o.doc.unitSize, o.doc.quantity.v \div 1000)
       /\ o.weightKg = o.doc.totalWeightKg
       /\ exportCsvRows[i].totalWeightKg = o.doc.totalWeightKg

-----------------------------------------------------------------------------
(* RefreshSpec: the batches of the Orders component with its Refresh
   button, which is never disabled *)

RefreshNext ==
    \/ \E id \in RowIds : ~IsSelected(ordersPage.selected, id) /\ toggleSelect(id)
    \/ bulkConfirm
    \/ bulkDelete
    \/ \E t \in orderTasks, ok \in BOOLEAN : BulkStep(t, ok)
    \/ \E t \in orderTasks, ok \in BOOLEAN : BulkFetchSettle(t, ok)
    \/ FetchOrders
    \/ \E ok \in BOOLEAN : FetchOrdersSettle(ok)

RefreshSpec == BulkInit /\ [][RefreshNext]_vars

\* the batches of the Orders component in flight
OrderBatches == {t \in orderTasks : IsBulk(t)}

\* C24: while a bulk confirm or bulk delete of orders is in flight busy is
\* true, so that the bulk buttons are disabled, and no second batch runs
\* beside the first, whatever the admin clicks meanwhile
C24_BusyThroughBatch ==
    /\ OrderBatches # {} => ordersPage.busy
    /\ Cardinality(OrderBatches) <= 1

-----------------------------------------------------------------------------
(* ThanksSpec: customers who leave the modal open until their order is
   stored and the thank-you popup shows *)

ThanksNext ==
    \/ \E p \in DOMAIN dbProducts : OpenOrder(p)
    \/ IncQuantity
    \/ \E n \in NameInputs, ph \in PhoneInputs, a \in AddressInputs : HandleSubmit(n, ph, a)
    \/ \E c \in submits, ok \in BOOLEAN : AddOrderSettle(c, ok)
    \/ \E i \in closeTimers : AutoClose(i)
    \/ ThanksOk

ThanksSpec == NotifyInit /\ [][ThanksNext]_vars

\* the auto-close timers whose callback runs in this step
TimersFired == closeTimers \ closeTimers'

\* C25: after a stored order onClose is called once, by the auto-close
\* timer or by the thank-you button and never by both: a timer that fires
\* finds its own modal still open, so it neither calls onClose for a modal
\* the button has closed nor closes a modal that was opened afterwards
C25_ClosedOnce ==
    [][\A i \in TimersFired : modal.open /\ modal.inst = i]_vars

-----------------------------------------------------------------------------
(* RevenueSpec: the revenue the Dashboard and the Orders component sum
   over the same stored orders *)

\* the amount fetchSummary of the Dashboard counts for record r
dashboardTotal(r) ==
    LET byUnit == IF Truthy(r.unitPrice) /\ Truthy(r.quantity)
                  THEN JMul(ToNumber(r.unitPrice), ToNumber(r.quantity))
                  ELSE N(0)
        g == ToNumber(IF NotNullish(r.grandTotal) THEN r.grandTotal
                      ELSE IF NotNullish(r.totalPrice) THEN r.totalPrice
                      ELSE byUnit)
    IN OrElse(g, N(0))

\* the amount the aggregates of the Orders component count for record r,
\* whose row carries _grandTotal = computeOrderTotal(r)
aggregateTotal(r) ==
    LET grandTotal == computeOrderTotal(r)
    IN OrElse(ToNumber(IF NotNullish(grandTotal) THEN grandTotal
                       ELSE computeOrderTotal(r)), N(0))

\* rows.reduce((s, r) => s + f(r), 0)
RECURSIVE SumOver(_, _)
SumOver(f(_), rows) ==
    IF rows = <<>> THEN N(0)
    ELSE JAdd(SumOver(f, SubSeq(rows, 1, Len(rows) - 1)), f(rows[Len(rows)]))

StoredOrderInputs ==
    [quantity : {Num(2)}, unitPrice : {Undef, Num(30)}, price : {Undef},
     deliveryFee : {Undef, Num(80)}, grandTotal : {Undef, Num(200)},
     itemsTotal : {Undef, Num(100)}, totalPrice : {Undef, Num(150)}]

RECURSIVE OrderListsOf(_)
OrderListsOf(n) ==
    IF n = 0 THEN {<<>>}
    ELSE LET shorter == OrderListsOf(n - 1)
         IN shorter \cup {Append(l, r) : l \in {u \in shorter : Len(u) = n - 1},
                                        r \in StoredOrderInputs}

NoRevenue == [revenueEstimate |-> Undef, totalRevenue |-> Undef]

RevenueInit ==
    /\ StoreInit
    /\ ModalIdle
    /\ ShopIdle
    /\ OrdersIdle
    /\ ProductsIdle
    /\ FormsIdle
    /\ weightIn \in [stored : OrderListsOf(MaxOrders)]
    /\ weightOut = NoRevenue

\* fetchSummary of the Dashboard has read the orders
fetchSummary ==
    /\ "stored" \in DOMAIN weightIn
    /\ weightOut.revenueEstimate = Undef
    /\ weightOut' = [weightOut EXCEPT
          !.revenueEstimate = SumOver(dashboardTotal, weightIn.stored)]
    /\ UNCHANGED <<dbProducts, dbOrders, nextOrderId, nextProductId, modal, closeTimers,
                   submits, notified, ordersPage, orderTasks, productsPage, productTasks,
                   forms, weightIn, shop>>

\* the Orders component has read the orders and computed its aggregates
aggregates ==
    /\ "stored" \in DOMAIN weightIn
    /\ weightOut.totalRevenue = Undef
    /\ weightOut' = [weightOut EXCEPT
          !.totalRevenue = SumOver(aggregateTotal, weightIn.stored)]
    /\ UNCHANGED <<dbProducts, dbOrders, nextOrderId, nextProductId, modal, closeTimers,
                   submits, notified, ordersPage, orderTasks, productsPage, productTasks,
                   forms, weightIn, shop>>

RevenueNext == fetchSummary \/ aggregates

RevenueSpec == RevenueInit /\ [][RevenueNext]_vars

\* C26: for every set of stored orders the revenue estimate of the
\* Dashboard is the estimated revenue of the Orders view
C26_SameRevenue ==
    ("stored" \in DOMAIN weightIn
     /\ weightOut.revenueEstimate # Undef /\ weightOut.totalRevenue # Undef)
    => weightOut.revenueEstimate = weightOut.totalRevenue

-----------------------------------------------------------------------------
(* ViewSpec: the 'View on site' links of the admin product list and the
   single-product route they lead to *)

\* the document id n as a route parameter
DocId(n) == [t |-> "id", v |-> n]

\* the last segment of the link of row p: p.slug ?? p.id
ViewParam(p) == IF NotNullish(p.doc.slug) THEN p.doc.slug ELSE DocId(p.id)

\* the link of the row of product id is followed: the route /product/:id
\* mounts ProductPage, which finds the parameter in no static product and
\* calls getDoc(doc(db, "products", id))
ViewOnSite(id) ==
    /\ ~shop.page.mounted
    /\ shop.page.inst < MaxOpens
    /\ \E i \in 1..Len(productsPage.products) :
          LET p == productsPage.products[i] IN
          /\ p.id = id
          /\ ViewParam(p) # Str(<<>>)
          /\ shop' = [shop EXCEPT
                !.page = [inst |-> shop.page.inst + 1, mounted |-> TRUE,
                          loading |-> TRUE, error |-> "", product |-> FALSE],
                !.loads = @ \cup {[of |-> "view", inst |-> shop.page.inst + 1,
                                   target |-> id, param |-> ViewParam(p)]}]
    /\ ShopOnly

\* getDoc settles: the snapshot exists when the parameter is the id of a
\* stored document
ViewSettle(l, ok) ==
    /\ l \in shop.loads
    /\ l.of = "view"
    /\ LET here == shop.page.mounted /\ shop.page.inst = l.inst
           exists == l.param.t = "id" /\ l.param.v \in DOMAIN dbProducts
       IN shop' = [shop EXCEPT
             !.loads = @ \ {l},
             !.page = IF ~here THEN @
                      ELSE IF ~ok
                      THEN [@ EXCEPT !.error = "Failed to load product", !.loading = FALSE]
                      ELSE IF exists
                      THEN [@ EXCEPT !.product = TRUE, !.loading = FALSE]
                      ELSE [@ EXCEPT !.error = "Product not found", !.loading = FALSE]]
    /\ ShopOnly

ViewInit ==
    /\ StoreInit
    /\ ModalIdle
    /\ ShopIdle
    /\ OrdersIdle
    /\ ProductsLoaded
    /\ FormsIdle
    /\ WeightIdle

ViewNext ==
    \/ \E id \in ProductRowIds : ViewOnSite(id)
    \/ \E l \in shop.loads, ok \in BOOLEAN : ViewSettle(l, ok)
    \/ UnmountProductPage
    \/ \E id \in ProductRowIds : openEdit(id)
    \/ \E v \in BlankableSlugs : EditSlug(v)
    \/ CancelEdit
    \/ saveEdit
    \/ \E t \in productTasks, ok \in BOOLEAN : saveEditSettle(t, ok)

ViewSpec == ViewInit /\ [][ViewNext]_vars

\* C27: for every stored product the 'View on site' link of its row opens
\* the page of that product: the route finds a product by its slug as by
\* its id and never answers 'Product not found' for a product that exists
C27_LinkResolves ==
    [][\A l \in shop.loads \ shop'.loads :
          (/\ l.of = "view"
           /\ l.target \in DOMAIN dbProducts
           /\ shop.page.mounted /\ shop.page.inst = l.inst)
          => shop'.page.error # "Product not found"]_vars

-----------------------------------------------------------------------------
(* EditSpec: the edit dialog of the admin products page, with slug fields
   that may be blank *)

EditDialogNext ==
    \/ \E id \in ProductRowIds : openEdit(id)
    \/ \E v \in EditTitleInputs : EditTitle(v)
    \/ \E v \in BlankableSlugs : EditSlug(v)
    \/ \E v \in EditPriceInputs : EditPrice(v)
    \/ CancelEdit
    \/ saveEdit
    \/ \E t \in productTasks, ok \in BOOLEAN : saveEditSettle(t, ok)

EditSpec == ViewInit /\ [][EditDialogNext]_vars

\* the updateDoc calls saveEdit issues, and those that succeed, in this step
SavesIssued == {t \in productTasks' \ productTasks : t.op = "save"}
SavesDone ==
    {t \in productTasks \ productTasks' :
        t.op = "save" /\ productsPage.editing # NoEdit /\ productsPage'.editing = NoEdit}

\* the row of product id in list rows
RowOf(rows, id) == rows[CHOOSE i \in 1..Len(rows) : rows[i].id = id]

\* C30: saving an edit never wipes a stored slug: with a blank slug field
\* saveEdit writes the other edited fields and leaves the slug of the
\* stored product and of the local row as they were; the slug is written
\* only when the field held something besides blanks
C30_SlugKept ==
    [][/\ \A t \in SavesIssued :
             /\ "slug" \in DOMAIN t.payload <=> Filled(productsPage.editing.slug)
             /\ t.payload.title = Trim(productsPage.editing.title)
             /\ t.payload.price = productsPage.editing.price
             /\ "slug" \in DOMAIN t.payload =>
                    t.payload.slug = Str(Trim(productsPage.editing.slug))
       /\ \A t \in SavesDone :
             LET slugOf(doc) == IF "slug" \in DOMAIN t.payload THEN t.payload.slug
                                ELSE doc.slug
             IN /\ dbProducts'[t.id].title = t.payload.title
                /\ dbProducts'[t.id].price = t.payload.price
                /\ dbProducts'[t.id].slug = slugOf(dbProducts[t.id])
                /\ t.id \in ProductRowIds =>
                      /\ RowOf(productsPage'.products, t.id).doc.title = t.payload.title
                      /\ RowOf(productsPage'.products, t.id).doc.slug =
                            slugOf(RowOf(productsPage.products, t.id).doc)]_vars

\* the product stored with the slug "h" is being saved under a new title
\* from a dialog whose slug field is blank: the call carries no slug
C30_Witness ==
    /\ productsPage.editing # NoEdit
    /\ productsPage.editing.id = 1
    /\ ~Filled(productsPage.editing.slug)
    /\ dbProducts[1].slug = Str(<<"h">>)
    /\ \E t \in productTasks :
          /\ t.op = "save"
          /\ t.id = 1
          /\ "slug" \notin DOMAIN t.payload
          /\ t.payload.title = <<"G", "h", "e", "e">>

-----------------------------------------------------------------------------
(* PriceSpec: the two places that write a product's price, the AddProduct
   form and the edit dialog of the admin products page *)

SignedPriceInputs == {Str(<<>>), Str(<<"5">>), Str(<<"-", "5">>)}

\* the Create button of AddProduct: the browser checks the price input
\* (type number, min 0) and only then dispatches the submit event
SubmitForm(s) ==
    /\ ~(forms[s].price.t = "num" /\ forms[s].price.v < 0)
    /\ submit(s)

PriceInit ==
    /\ StoreInit
    /\ ModalIdle
    /\ ShopIdle
    /\ OrdersIdle
    /\ ProductsLoaded
    /\ WeightIdle
    /\ forms = <<NewForm>>

PriceNext ==
    \/ \E s \in DOMAIN forms :
          \/ \E v \in BlankableTitles : SetTitle(s, v)
          \/ \E v \in SignedPriceInputs : SetPrice(s, v)
          \/ TypeSlug(s, <<"n">>)
          \/ DebounceFire(s)
          \/ \E c \in forms[s].checks, o \in CheckOutcomes : DebounceSettle(s, c, o)
          \/ SubmitForm(s)
          \/ \E o \in CheckOutcomes : SubmitCheckSettle(s, o)
          \/ \E ok \in BOOLEAN : AddDocSettle(s, ok)
    \/ \E id \in ProductRowIds : openEdit(id)
    \/ \E v \in SignedPriceInputs : EditPrice(v)
    \/ CancelEdit
    \/ saveEdit
    \/ \E t \in productTasks, ok \in BOOLEAN : saveEditSettle(t, ok)

PriceSpec == PriceInit /\ [][PriceNext]_vars

\* the products this step creates or changes
Written == {id \in DOMAIN dbProducts' :
               id \notin DOMAIN dbProducts \/ dbProducts'[id] # dbProducts[id]}

\* C22: every product AddProduct's submit stores, and every product
\* saveEdit changes, has a price that is a number and not below 0
C22_PriceNotNegative ==
    [][\A id \in Written :
          dbProducts'[id].price.t = "num" /\ dbProducts'[id].price.v >= 0]_vars

-----------------------------------------------------------------------------
(* Spec: one AddProduct form session on the products of the store *)

TitleInputs == {<<"A", "b">>}
SlugInputs == {<<>>, <<"n">>, <<"a", "b">>}

\* the store after the form has created a first product, "Ab" at 5
CreatedEarlier == [title |-> <<"A", "b">>, slug |-> Str(<<"a", "b">>), price |-> Num(5)]

StoreWithCreated ==
    /\ dbProducts = Append(ProductsAtStart, CreatedEarlier)
    /\ nextProductId = Len(ProductsAtStart) + 2
    /\ dbOrders = OrdersAtStart
    /\ nextOrderId = MaxOrders

Init ==
    /\ StoreWithCreated
    /\ ModalIdle
    /\ ShopIdle
    /\ OrdersIdle
    /\ ProductsIdle
    /\ WeightIdle
    /\ forms = <<TitledForm>>

FormNext(s) ==
    \/ \E v \in TitleInputs : SetTitle(s, v)
    \/ \E v \in SlugInputs : TypeSlug(s, v)
    \/ ResetForm(s)
    \/ DebounceFire(s)
    \/ \E c \in forms[s].checks, o \in CheckOutcomes : DebounceSettle(s, c, o)
    \/ handleSuggestSlug(s)
    \/ \E i \in 1..Len(forms[s].suggests), o \in CheckOutcomes, now \in ClockSamples :
          SuggestSettle(s, i, o, now)
    \/ submit(s)
    \/ \E o \in CheckOutcomes : SubmitCheckSettle(s, o)
    \/ \E ok \in BOOLEAN : AddDocSettle(s, ok)

Next == \E s \in DOMAIN forms : FormNext(s)

Spec == Init /\ [][Next]_vars

\* session s took the step
Stepped(s) == forms'[s] # forms[s]

\* the debounce callbacks of session s that got their answer in the step
Answered(s) == forms[s].checks \ forms'[s].checks

\* C4: an answer to a debounced availability check changes slugStatus only
\* when the check was issued for the slug that is in the field now; an
\* answer for an earlier value changes nothing, also when the field has
\* been emptied since
C4_StaleIgnored ==
    [][\A s \in DOMAIN forms : \A c \in Answered(s) :
          forms'[s].slugStatus # forms[s].slugStatus => c.slug = forms[s].slug]_vars

\* C5: a call of handleSuggestSlug checks at most 14 candidates (the base,
\* 12 numbered ones and one with a timestamp): none is still checking after
\* 14 of them were reported to exist
C5_SuggestBounded ==
    \A s \in DOMAIN forms : \A i \in 1..Len(forms[s].suggests) :
        forms[s].suggests[i].attempt < 14

\* C6: a checkSlugExists call whose query threw reports that the slug
\* exists, and in the step it returns the status does not become
\* 'available', the suggestion does not fill the field, submit does not go
\* on to addDoc and nothing is stored
C6_FailsClosed ==
    [][\A s \in DOMAIN forms :
          (Stepped(s) /\ forms'[s].lastCheck.by # "none" /\ forms'[s].lastCheck.failed) =>
             /\ forms'[s].lastCheck.exists
             /\ forms'[s].slugStatus = "available" => forms[s].slugStatus = "available"
             /\ forms'[s].slug = forms[s].slug
             /\ forms'[s].submit.phase = "create" => forms[s].submit.phase = "create"
             /\ dbProducts' = dbProducts]_vars

\* the query of submit's check threw: the form shows 'taken', is no longer
\* busy and nothing was created
C6_Witness ==
    \E s \in DOMAIN forms :
        /\ forms[s].lastCheck = [by |-> "submit", failed |-> TRUE, exists |-> TRUE]
        /\ forms[s].slugStatus = "taken"
        /\ forms[s].slug = <<"n">>
        /\ ~forms[s].busy
        /\ forms[s].submit = NoSubmit
        /\ Str(<<"n">>) \notin StoredSlugs

\* the numerals 1 to 12
Numerals ==
    <<(<<"1">>), (<<"2">>), (<<"3">>), (<<"4">>), (<<"5">>), (<<"6">>), (<<"7">>),
      (<<"8">>), (<<"9">>), (<<"1", "0">>), (<<"1", "1">>), (<<"1", "2">>)>>

\* the k-th candidate after the base is base-k, for k up to 12; later ones
\* are the base, a hyphen and six base-36 digits
InOrder(g) ==
    IF g.attempt = 0 THEN g.candidate = g.base
    ELSE IF g.attempt <= 12 THEN g.candidate = g.base \o <<"-">> \o Numerals[g.attempt]
    ELSE /\ Len(g.candidate) = Len(g.base) + 7
         /\ SubSeq(g.candidate, 1, Len(g.base) + 1) = g.base \o <<"-">>
         /\ \A i \in (Len(g.base) + 2)..Len(g.candidate) :
               g.candidate[i] \in DigitChars \cup LowerChars

\* C7: handleSuggestSlug checks the base, then base-1, base-2, ... in that
\* order, moving on exactly when the candidate was reported to exist; the
\* slug field is set only to the candidate just checked, and only when that
\* check reported that it does not exist
C7_SuggestOrder ==
    [][\A s \in DOMAIN forms :
          (Stepped(s) /\ forms'[s].lastCheck.by = "suggest") =>
             \E i \in 1..Len(forms[s].suggests) :
                LET g == forms[s].suggests[i] IN
                /\ InOrder(g)
                /\ IF forms'[s].lastCheck.exists
                   THEN /\ forms'[s].slug = forms[s].slug
                        /\ Len(forms'[s].suggests) = Len(forms[s].suggests)
                        /\ forms'[s].suggests[i].base = g.base
                        /\ forms'[s].suggests[i].attempt = g.attempt + 1
                        /\ InOrder(forms'[s].suggests[i])
                        /\ \A j \in 1..Len(forms[s].suggests) :
                              j # i => forms'[s].suggests[j] = forms[s].suggests[j]
                   ELSE /\ ~forms'[s].lastCheck.failed
                        /\ forms'[s].slug = g.candidate
                        /\ forms'[s].suggests = RemoveAt(forms[s].suggests, i)]_vars

\* "ab" is stored, so the suggestion for the title "Ab" went on to "ab-1",
\* found it free and put it in the field
C7_Witness ==
    \E s \in DOMAIN forms :
        /\ forms[s].lastCheck = [by |-> "suggest", failed |-> FALSE, exists |-> FALSE]
        /\ forms[s].slug = <<"a", "b", "-", "1">>
        /\ Str(<<"a", "b">>) \in StoredSlugs
        /\ Str(<<"a", "b", "-", "1">>) \notin StoredSlugs

-----------------------------------------------------------------------------
(* RaceSpec: two AddProduct sessions create products at the same time *)

RaceInit ==
    /\ StoreInit
    /\ ModalIdle
    /\ ShopIdle
    /\ OrdersIdle
    /\ ProductsIdle
    /\ WeightIdle
    /\ forms = <<TitledForm, TitledForm>>

CreateNext(s) ==
    \/ \E v \in SlugInputs : TypeSlug(s, v)
    \/ DebounceFire(s)
    \/ \E c \in forms[s].checks, o \in CheckOutcomes : DebounceSettle(s, c, o)
    \/ submit(s)
    \/ \E o \in CheckOutcomes : SubmitCheckSettle(s, o)
    \/ \E ok \in BOOLEAN : AddDocSettle(s, ok)

RaceNext == \E s \in DOMAIN forms : CreateNext(s)

RaceSpec == RaceInit /\ [][RaceNext]_vars

\* products a and b carry the same non-empty slug
SameSlug(a, b) ==
    /\ a # b
    /\ dbProducts[a].slug.t = "str"
    /\ dbProducts[a].slug.s # <<>>
    /\ dbProducts[a].slug = dbProducts[b].slug

\* C3: submit checks the slug and creates the product in two separate
\* steps: once its check has passed, its addDoc goes through whatever the
\* collection holds by then, a product with the same slug included
C3_CheckThenCreate ==
    \A s \in DOMAIN forms :
        forms[s].submit.phase = "create" => ENABLED AddDocSettle(s, TRUE)

\* the two sessions have each created a product, both with the same slug,
\* and both forms are back to idle
C3_Witness ==
    /\ \E a, b \in DOMAIN dbProducts :
          a > Len(ProductsAtStart) /\ b > Len(ProductsAtStart) /\ SameSlug(a, b)
    /\ \A s \in DOMAIN forms : forms[s].submit = NoSubmit /\ forms[s].slugStatus = "idle"

-----------------------------------------------------------------------------
(* CatalogSpec: an AddProduct session and the edit dialog of AdminProducts
   write to the products collection *)

EditSlugInputs == {<<"h">>, <<"n">>}

CatalogInit ==
    /\ StoreInit
    /\ ModalIdle
    /\ ShopIdle
    /\ OrdersIdle
    /\ ProductsLoaded
    /\ WeightIdle
    /\ forms = <<TitledForm>>

EditNext ==
    \/ \E id \in ProductRowIds : openEdit(id)
    \/ \E v \in EditSlugInputs : EditSlug(v)
    \/ saveEdit
    \/ \E t \in productTasks, ok \in BOOLEAN : saveEditSettle(t, ok)
    \/ \E id \in ProductRowIds : deleteProduct(id)
    \/ \E id \in DOMAIN ProductsAtStart, ok \in BOOLEAN : deleteProductSettle(id, ok)

CatalogNext == (\E s \in DOMAIN forms : CreateNext(s)) \/ EditNext

CatalogSpec == CatalogInit /\ [][CatalogNext]_vars

\* C2: no two stored products carry the same non-empty slug
C2_UniqueSlugs == \A a, b \in DOMAIN dbProducts : ~SameSlug(a, b)

====
